---- MODULE Spec2Model ----
(***************************************************************************)
(* Model of the world tick of the Illarion server: World::turntheworld     *)
(* with its three phases (checkPlayers, checkMonsters, checkNPC), the      *)
(* spawn-boundary correction of a monster's random step, and the range     *)
(* limited text broadcast (World::sendMessageToAllCharsInRange).           *)
(***************************************************************************)
EXTENDS Integers, Sequences, FiniteSets, TLC

(***************************************************************************)
(* Bounds of the model.                                                    *)
(***************************************************************************)
\* the players of the registry, of which MaxLogins log in while the world runs
MaxPlayers == 2
MaxLogins == 1

\* the players around a speaker whose texts are followed
MaxHearers == 2

MaxMonsters == 2
MaxNpcs == 1
\* wall clock: the world is created in second StartSecond; the clock takes
\* the readings -1..MaxClockSteps steps of ClockStep milliseconds away from
\* the begin of that second
StartSecond == 1
MaxClockSteps == 2
ClockStep == 150

\* random step: the spawn ranges are 0..MaxRange, and a monster is followed
\* up to MaxStray tiles outside of the largest spawn area
MaxRange == 2
MaxStray == 1
\* text broadcast: the characters around the speaker, and the elevations
\* -MaxZ..MaxZ on which they stand
MaxListeners == 1
MaxZ == 1
\* player phase: a keepalive is up to CLIENT_TIMEOUT + MaxLate - 1 seconds old
MaxLate == 2
\* immediate commands: the I/O threads, and the entries they push in total
MaxIoThreads == 2
MaxEnqueues == 3
\* spawn points: the rows of the table, and the ids they carry
MaxRows == 2
MaxSpawnId == 3
\* day change: the server starts at one of the readings FirstUnixTime,
\* FirstUnixTime + TimeStep, ... of the system clock (seconds)
FirstUnixTime == 1700000000
TimeStep == 1201
MaxTimeSteps == 60

(***************************************************************************)
(* Program constants.                                                      *)
(***************************************************************************)
\* milliseconds per action point (tuningConstants.hpp)
MIN_AP_UPDATE == 100
\* seconds without keepalive after which a player is timed out
\* (tuningConstants.hpp; a small stand-in for the configured value)
CLIENT_TIMEOUT == 1
\* begin of illarion time, 17.2.2000, in seconds of the system clock
IG_EPOCH == 950742000
\* seconds of one in-game day
IG_DAY == 28800
\* seconds added while daylight saving time is in effect
DST_SHIFT == 3600

PlayerIds == 1..MaxPlayers
\* the players whose clients connect while the world runs
LoginIds == 1..MaxLogins
MonsterIds == 1..MaxMonsters
NpcIds == 1..MaxNpcs

ClockValues == {StartSecond * 1000 + k * ClockStep : k \in -1..MaxClockSteps}

VARIABLES
    clock,          \* the wall clock, in milliseconds (ftime / time)
    timeStart,      \* World::timeStart
    now,            \* World::now as milliseconds (now.time*1000 + now.millitm)
    usedAP,         \* World::usedAP
    ap,             \* World::ap
    pc,             \* position of the tick thread inside turntheworld
    Players,        \* World::Players, the ids in the registry
    online,         \* player.Connection->online
    lastkeepalive,  \* player.lastkeepalive (seconds)
    Monsters,       \* World::Monsters, the ids in the registry
    newMonsters,    \* World::newMonsters
    nextMonsterId,  \* the next monster a spawn point creates
    monAlive,       \* monster.isAlive()
    Npc,            \* World::Npc, the ids in the registry
    npcAlive,       \* npc->isAlive()
    tempkeepalive,  \* checkPlayers: local tempkeepalive
    todo,           \* for_each: the entities the traversal still has to visit
    lostPlayers,    \* checkPlayers: local lostPlayers
    deadMonsters,   \* checkMonsters: local deadMonsters
    grantP,         \* points handed to each player in the running tick
    grantM,         \* points handed to each monster in the running tick
    grantN,         \* points handed to each NPC in the running tick
    visitedM,       \* monsters the running monster scan has visited
    spin,           \* NPCs for which a spin was sent in the running tick
    phaseLog,       \* what the running tick has done so far, in order
    available,      \* the action points turntheworld computed for the running tick
    lastTick,       \* the clock reading of the latest tick that ran the phases
    logout,         \* the command handed to Connection->shutdownSend in the running tick
    workedOut,      \* players whose workoutCommands ran in the running tick
    fieldMissing,   \* players on whose position fieldAt throws FieldNotFound
    caught,         \* players for which FieldNotFound was caught in the running tick
    handedAP,       \* the sum of the values of ap with which checkPlayers was entered
    monPos,         \* random step: monster.getPosition(), as <<x, y>>
    spawn,          \* random step: monster.getSpawn(), NoSpawn for nullptr
    randDir,        \* random step: the direction drawn by Random::uniform(0,7)
    dir,            \* random step: the direction handed to monster.move
    charType,       \* broadcast: getType() of each character; character 0 is cc
    charPos,        \* broadcast: getPosition() of each character, <<x, y, z>>
    talkType,       \* broadcast: tt of the latest broadcast
    received,       \* broadcast: the characters whose receiveText was called
    charLang,       \* broadcast: getPlayerLanguage() of each character that is a player
    talkLang,       \* broadcast: lang of the latest broadcast, NoLang if it had none
    charAlive,      \* isAlive() of each character
    monsterType,    \* getMonsterType() of each character that is a monster
    itemRight,      \* target query: id of monster.GetItemAt(RIGHT_TOOL), 0 for no item
    itemLeft,       \* target query: id of monster.GetItemAt(LEFT_TOOL), 0 for no item
    canAttack,      \* target query: monster.canAttack()
    weaponRange,    \* target query: the local range of the lambda
    temp,           \* target query: the local temp, the result of getTargetsInRange
    target,         \* target query: the local target, NoTarget for nullptr
    immediatePlayerCommands,  \* World::immediatePlayerCommands, a queue of players
    mutexOwner,     \* the thread that holds immediatePlayerCommandsMutex
    drainPc,        \* position of the main thread in checkPlayerImmediateCommands
    drainPlayer,    \* checkPlayerImmediateCommands: the local player
    ioPc,           \* position of each I/O thread in addPlayerImmediateActionQueue
    ioPlayer,       \* addPlayerImmediateActionQueue: the argument player
    enqLog,         \* the players pushed so far, in order
    deqLog,         \* the players popped so far, in order
    execLog,        \* the players whose commands the drain loop has worked out
    deqOnline,      \* Connection->online of each popped player when it was popped
    testOnline,     \* Connection->online of each popped player when the loop read it
    SpawnList,      \* World::SpawnList, the ids of its spawn points in order
    monSpawn,       \* monster.getSpawn(): the id of a spawn point, 0 for nullptr
    loadResult,     \* what the latest call of initRespawns returned
    rows,           \* the rows of the table spawnpoint at the latest call
    faultAt,        \* where the latest call met an exception, NoFault for nowhere
    prevSpawnList,  \* SpawnList before the latest call
    dangling,       \* the monsters whose getSpawn() points to a destroyed spawn point
    unixtime,       \* day change: time(nullptr) and system_clock::now(), in seconds
    isdst,          \* day change: timestamp->tm_isdst
    dayPc,          \* day change: whether getNextIGDayTime has been called
    diff,           \* day change: the local diff, in seconds
    monPc,          \* monster turn: position inside the lambda of checkMonsters
    canAct,         \* monster turn: monster.canAct()
    onRoute,        \* monster turn: monster.getOnRoute()
    monsterPos,     \* monster turn: monster.getPosition(), a tile
    lastTargetSeen, \* monster turn: monster.lastTargetSeen
    lastTargetPosition, \* monster turn: monster.lastTargetPosition, a tile
    foundMonster,   \* monster turn: the local foundMonster
    script,         \* monster turn: whether monStruct.script is set
    canselfheal,    \* monster turn: monsterdef.canselfheal
    canFight,       \* monster turn: monster.canFight()
    has_attacked,   \* monster turn: the local has_attacked
    makeRandomStep, \* monster turn: the local makeRandomStep
    stepGoal,       \* monster turn: the argument of performStep, NoPlace if not called
    truthy,         \* monster turn: the hooks that returned a truthy value
    did,            \* monster turn: the calls and returns of the turn, in order
    textPc,         \* texts: whether sendMessageToAllCharsInRange has run
    german,         \* texts: the argument german
    english,        \* texts: the argument english
    is_same,        \* texts: the local is_same (&german == &english)
    playerChatScript, \* texts: whether World::playerChatScript is set
    speaker,        \* texts: cc, NoHearer if cc is not a player
    activeLanguage, \* texts: cc->getActiveLanguage()
    inRange,        \* texts: Players.findAllCharactersInRangeOf(...), in its order
    hearerLang,     \* texts: the language of each player, which nls follows
    tempMessage,    \* texts: the local tempMessage
    heard,          \* texts: the texts handed to receiveText of each player
    npcHeard,       \* texts: the texts handed to receiveText of an NPC in range
    monsterHeard    \* texts: the texts handed to receiveText of a monster in range

tickVars == <<clock, timeStart, now, usedAP, ap, pc, Players, online, lastkeepalive,
              Monsters, newMonsters, nextMonsterId, monAlive, Npc, npcAlive,
              tempkeepalive, todo, lostPlayers, deadMonsters,
              grantP, grantM, grantN, visitedM, spin, phaseLog, available, lastTick,
              logout, workedOut, fieldMissing, caught, handedAP>>

wanderVars == <<monPos, spawn, randDir, dir>>

talkVars == <<charType, charPos, talkType, received, charLang, talkLang>>

targetVars == <<charAlive, monsterType, itemRight, itemLeft, canAttack, weaponRange,
                temp, target>>

drainVars == <<immediatePlayerCommands, mutexOwner, drainPc, drainPlayer, ioPc,
               ioPlayer, enqLog, deqLog, execLog, deqOnline, testOnline>>

respawnVars == <<SpawnList, monSpawn, loadResult, rows, faultAt, prevSpawnList,
                 dangling>>

dayVars == <<unixtime, isdst, dayPc, diff>>

turnVars == <<monPc, canAct, onRoute, monsterPos, lastTargetSeen, lastTargetPosition,
              foundMonster, script, canselfheal, canFight, has_attacked,
              makeRandomStep, stepGoal, truthy, did>>

textVars == <<textPc, german, english, is_same, playerChatScript, speaker,
              activeLanguage, inRange, hearerLang, tempMessage, heard, npcHeard,
              monsterHeard>>

vars == <<tickVars, wanderVars, talkVars, targetVars, drainVars, respawnVars, dayVars,
          turnVars, textVars>>

Range(s) == {s[i] : i \in 1..Len(s)}

NoGrant == [ap |-> 0, fp |-> 0]

\* no command was handed to shutdownSend
NoCommand == "none"
\* LogOutTC(UNSTABLECONNECTION)
UNSTABLECONNECTION == "UNSTABLECONNECTION"

(***************************************************************************)
(* Arithmetic of turntheworld.  The operands are unsigned long, so the     *)
(* difference is computed modulo 2^64 and then converted to the int ap.    *)
(* TLC's integers are 32 bit wide: the model wraps at 2^WrapBits and       *)
(* reads the result as a signed number of that width, which agrees with    *)
(* the program as long as the true difference is below 2^(WrapBits-1).     *)
(***************************************************************************)
WrapBits == 30

ToInt(x) ==
    LET u == x % (2 ^ WrapBits)
    IN  IF u >= 2 ^ (WrapBits - 1) THEN u - 2 ^ WrapBits ELSE u

\* variant: the quotient is rounded up instead of down
ComputeAP_roundUp(timeNow, tStart, used) ==
    ToInt(((timeNow + MIN_AP_UPDATE - 1) \div MIN_AP_UPDATE) - (tStart \div MIN_AP_UPDATE) - used)

\* variant: the consumed counter is not subtracted
ComputeAP_ignoreUsed(timeNow, tStart, used) ==
    ToInt((timeNow \div MIN_AP_UPDATE) - (tStart \div MIN_AP_UPDATE))

\* variant: a call hands out one action point at most
ComputeAP_single(timeNow, tStart, used) ==
    LET due == ToInt((timeNow \div MIN_AP_UPDATE) - (tStart \div MIN_AP_UPDATE) - used)
    IN  IF due > 1 THEN 1 ELSE due

ComputeAP(timeNow, tStart, used) ==
    ToInt((timeNow \div MIN_AP_UPDATE) - (tStart \div MIN_AP_UPDATE) - used)

\* variant: the phases run for every non-zero value
RunsPhases_nonZero(a) == a # 0

\* the test that guards the phases
RunsPhases(a) == a > 0

\* variant: the monster phase keeps the budget of the player phase
MonsterAP_same(a) == a

\* checkMonsters: if (ap > 1) --ap;
MonsterAP(a) == IF a > 1 THEN a - 1 ELSE a

\* variant: the monster phase is called before the player phase
PhaseAfter_monstersFirst(p) ==
    CASE p = "turntheworld" -> "checkMonsters"
      [] p = "checkMonsters" -> "checkPlayers"
      [] p = "checkPlayers" -> "checkNPC"
      [] p = "checkNPC" -> "done"

\* the order in which turntheworld calls the phases
PhaseAfter(p) ==
    CASE p = "turntheworld" -> "checkPlayers"
      [] p = "checkPlayers" -> "checkMonsters"
      [] p = "checkMonsters" -> "checkNPC"
      [] p = "checkNPC" -> "done"

\* variant: the erase pass may start while entities are still unvisited
ForEachReturned_early(remaining) == TRUE

\* for_each returns once it has visited every entity of the registry
ForEachReturned(remaining) == remaining = {}

\* variant: the buffer is not cleared
Cleared_kept(buffer) == buffer

\* newMonsters.clear()
Cleared(buffer) == <<>>

(***************************************************************************)
(* The random step of a monster (World::checkMonsters, the branch taken    *)
(* when no target was found and the self heal did not fire).               *)
(***************************************************************************)
NoSpawn == [x |-> 0, y |-> 0, range |-> -1, null |-> TRUE]
NoDir == "none"

\* enum direction, the values 0..7 that Random::uniform(0,7) can return
Directions ==
    {"dir_north", "dir_northeast", "dir_east", "dir_southeast",
     "dir_south", "dir_southwest", "dir_west", "dir_northwest"}

\* position::move(dir): the change of <<x, y>>; north is towards smaller y
Delta(d) ==
    CASE d = "dir_north"     -> <<0, -1>>
      [] d = "dir_northeast" -> <<1, -1>>
      [] d = "dir_east"      -> <<1, 0>>
      [] d = "dir_southeast" -> <<1, 1>>
      [] d = "dir_south"     -> <<0, 1>>
      [] d = "dir_southwest" -> <<-1, 1>>
      [] d = "dir_west"      -> <<-1, 0>>
      [] d = "dir_northwest" -> <<-1, -1>>

Moved(pos, d) == <<pos[1] + Delta(d)[1], pos[2] + Delta(d)[2]>>

abs(i) == IF i < 0 THEN -i ELSE i

\* the first switch: if (abs(xoffs) > spawn->getRange())
MirrorX(d) ==
    CASE d = "dir_northeast" -> "dir_northwest"
      [] d = "dir_east"      -> "dir_west"
      [] d = "dir_southeast" -> "dir_southwest"
      [] d = "dir_southwest" -> "dir_southeast"
      [] d = "dir_west"      -> "dir_east"
      [] d = "dir_northwest" -> "dir_northeast"
      [] OTHER               -> d

\* the second switch: if (abs(yoffs) > spawn->getRange())
MirrorY(d) ==
    CASE d = "dir_north"     -> "dir_south"
      [] d = "dir_northeast" -> "dir_southeast"
      [] d = "dir_southeast" -> "dir_northeast"
      [] d = "dir_south"     -> "dir_north"
      [] d = "dir_southwest" -> "dir_northwest"
      [] d = "dir_northwest" -> "dir_southwest"
      [] OTHER               -> d

\* variant: the second switch works on the direction that was drawn
BoundaryCorrected_yOnDrawn(pos, sp, d) ==
    LET newpos == Moved(pos, d)
        yoffs == sp.y - newpos[2]
        xoffs == sp.x - newpos[1]
        dx == IF abs(xoffs) > sp.range THEN MirrorX(d) ELSE d
    IN  IF abs(yoffs) > sp.range THEN MirrorY(d) ELSE dx

\* the direction after the two boundary tests, for a monster with a spawn
BoundaryCorrected(pos, sp, d) ==
    LET newpos == Moved(pos, d)
        yoffs == sp.y - newpos[2]
        xoffs == sp.x - newpos[1]
        dx == IF abs(xoffs) > sp.range THEN MirrorX(d) ELSE d
    IN  IF abs(yoffs) > sp.range THEN MirrorY(dx) ELSE dx

\* the tiles on which a monster is followed
Reach == MaxRange + MaxStray
Tiles == {<<x, y>> : x \in -Reach..Reach, y \in -Reach..Reach}

SpawnCenters == {<<0, 0>>, <<1, -1>>}

\* a monster stands somewhere around its spawn point, or has no spawn point
WanderInit ==
    /\ \E c \in SpawnCenters, r \in 0..MaxRange, none \in BOOLEAN :
          spawn = IF none THEN NoSpawn
                  ELSE [x |-> c[1], y |-> c[2], range |-> r, null |-> FALSE]
    /\ monPos \in Tiles
    /\ randDir = NoDir
    /\ dir = NoDir

\* SpawnPoint *spawn = monster.getSpawn(); ... monster.move(dir);
\* the move fails when the field is blocked or missing
randomStep ==
    /\ \E d \in Directions, blocked \in BOOLEAN :
          /\ randDir' = d
          /\ dir' = IF spawn.null THEN d ELSE BoundaryCorrected(monPos, spawn, d)
          /\ monPos' = IF blocked \/ Moved(monPos, dir') \notin Tiles
                       THEN monPos ELSE Moved(monPos, dir')
    /\ UNCHANGED <<clock, timeStart, now, usedAP, ap, pc, Players, online, lastkeepalive,
                   Monsters, newMonsters, nextMonsterId, monAlive, Npc, npcAlive,
                   tempkeepalive, todo, lostPlayers, deadMonsters, grantP, grantM, grantN,
                   visitedM, spin, phaseLog, available, lastTick, logout, workedOut,
                   fieldMissing, caught, handedAP, spawn, charType, charPos, talkType,
                   received, charLang, talkLang, charAlive, monsterType, itemRight,
                   itemLeft, canAttack, weaponRange, temp, target, immediatePlayerCommands,
                   mutexOwner, drainPc, drainPlayer, ioPc, ioPlayer, enqLog, deqLog,
                   execLog, deqOnline, testOnline, SpawnList, monSpawn, loadResult, rows,
                   faultAt, prevSpawnList, dangling, unixtime, isdst, dayPc, diff, monPc,
                   canAct, onRoute, monsterPos, lastTargetSeen, lastTargetPosition,
                   foundMonster, script, canselfheal, canFight, has_attacked,
                   makeRandomStep, stepGoal, truthy, did, textPc, german, english, is_same,
                   playerChatScript, speaker, activeLanguage, inRange, hearerLang,
                   tempMessage, heard, npcHeard, monsterHeard>>

\* monster.performStep(target): a step towards a target, wherever that is
performStep ==
    /\ \E d \in Directions :
          /\ Moved(monPos, d) \in Tiles
          /\ monPos' = Moved(monPos, d)
    /\ randDir' = NoDir
    /\ dir' = NoDir
    /\ UNCHANGED <<clock, timeStart, now, usedAP, ap, pc, Players, online, lastkeepalive,
                   Monsters, newMonsters, nextMonsterId, monAlive, Npc, npcAlive,
                   tempkeepalive, todo, lostPlayers, deadMonsters, grantP, grantM, grantN,
                   visitedM, spin, phaseLog, available, lastTick, logout, workedOut,
                   fieldMissing, caught, handedAP, spawn, charType, charPos, talkType,
                   received, charLang, talkLang, charAlive, monsterType, itemRight,
                   itemLeft, canAttack, weaponRange, temp, target, immediatePlayerCommands,
                   mutexOwner, drainPc, drainPlayer, ioPc, ioPlayer, enqLog, deqLog,
                   execLog, deqOnline, testOnline, SpawnList, monSpawn, loadResult, rows,
                   faultAt, prevSpawnList, dangling, unixtime, isdst, dayPc, diff, monPc,
                   canAct, onRoute, monsterPos, lastTargetSeen, lastTargetPosition,
                   foundMonster, script, canselfheal, canFight, has_attacked,
                   makeRandomStep, stepGoal, truthy, did, textPc, german, english, is_same,
                   playerChatScript, speaker, activeLanguage, inRange, hearerLang,
                   tempMessage, heard, npcHeard, monsterHeard>>

WanderNext == randomStep \/ performStep

(***************************************************************************)
(* World::sendMessageToAllCharsInRange: who receives a text.               *)
(***************************************************************************)
NoTalk == "none"
NoLang == "none"

\* enum Language
Languages == {"german", "english"}

\* Character::talk_type
TalkTypes == {"tt_say", "tt_whisper", "tt_yell"}

\* Character::character_type
CharTypes == {"player", "monster", "npc"}

\* the speaker cc and the characters around it
TalkChars == 0..MaxListeners
Listeners == 1..MaxListeners

\* struct Range: the vertical reach of a Range whose zRadius is not set
DefaultZRadius == 0

\* variant: a whisper reaches one tile farther
getTalkRange_whisper3(tt) ==
    CASE tt = "tt_say"     -> [radius |-> 14, zRadius |-> DefaultZRadius]
      [] tt = "tt_whisper" -> [radius |-> 3, zRadius |-> 0]
      [] tt = "tt_yell"    -> [radius |-> 30, zRadius |-> DefaultZRadius]

\* World::getTalkRange
getTalkRange(tt) ==
    CASE tt = "tt_say"     -> [radius |-> 14, zRadius |-> DefaultZRadius]
      [] tt = "tt_whisper" -> [radius |-> 2, zRadius |-> 0]
      [] tt = "tt_yell"    -> [radius |-> 30, zRadius |-> DefaultZRadius]

\* the test of CharacterContainer::findAllCharactersInRangeOf
InRangeOf(pos, center, range) ==
    /\ abs(pos[1] - center[1]) <= range.radius
    /\ abs(pos[2] - center[2]) <= range.radius
    /\ abs(pos[3] - center[3]) <= range.zRadius

\* variant: only the live characters are found
findAllCharactersInRangeOf_alive(type, center, range) ==
    {c \in TalkChars : charType[c] = type /\ InRangeOf(charPos[c], center, range)
                                          /\ charAlive[c]}

\* Players / Npc / Monsters .findAllCharactersInRangeOf(center, range)
findAllCharactersInRangeOf(type, center, range) ==
    {c \in TalkChars : charType[c] = type /\ InRangeOf(charPos[c], center, range)}

\* the distances at which the characters stand: at and just beyond each
\* radius, on either side
TalkXs == {-30, -3, 0, 2, 3, 14, 15, 30, 31}
TalkYs == {0, 3}
TalkPositions == {<<x, y, z>> : x \in TalkXs, y \in TalkYs, z \in -MaxZ..MaxZ}

TalkInit ==
    /\ charType \in [TalkChars -> CharTypes]
    /\ charPos \in {f \in [TalkChars -> TalkPositions] : f[0] = <<0, 0, 0>>}
    /\ talkType = NoTalk
    /\ received = {}
    /\ charLang = [c \in TalkChars |-> "english"]
    /\ talkLang = NoLang

\* variant: only the live characters in range are told
Recipients_alive(tt, cc) ==
    LET range == getTalkRange(tt)
    IN  findAllCharactersInRangeOf_alive("player", charPos[cc], range) \cup
        (IF charType[cc] = "player"
         THEN findAllCharactersInRangeOf_alive("npc", charPos[cc], range) \cup
              findAllCharactersInRangeOf_alive("monster", charPos[cc], range)
         ELSE {})

\* the characters whose receiveText is called
Recipients(tt, cc) ==
    LET range == getTalkRange(tt)
    IN  findAllCharactersInRangeOf("player", charPos[cc], range) \cup
        (IF charType[cc] = "player"
         THEN findAllCharactersInRangeOf("npc", charPos[cc], range) \cup
              findAllCharactersInRangeOf("monster", charPos[cc], range)
         ELSE {})

sendMessageToAllCharsInRange(tt) ==
    /\ talkType' = tt
    /\ talkLang' = NoLang
    /\ received' = Recipients(tt, 0)
    /\ UNCHANGED <<clock, timeStart, now, usedAP, ap, pc, Players, online, lastkeepalive,
                   Monsters, newMonsters, nextMonsterId, monAlive, Npc, npcAlive,
                   tempkeepalive, todo, lostPlayers, deadMonsters, grantP, grantM, grantN,
                   visitedM, spin, phaseLog, available, lastTick, logout, workedOut,
                   fieldMissing, caught, handedAP, monPos, spawn, randDir, dir, charType,
                   charPos, charLang, charAlive, monsterType, itemRight, itemLeft,
                   canAttack, weaponRange, temp, target, immediatePlayerCommands,
                   mutexOwner, drainPc, drainPlayer, ioPc, ioPlayer, enqLog, deqLog,
                   execLog, deqOnline, testOnline, SpawnList, monSpawn, loadResult, rows,
                   faultAt, prevSpawnList, dangling, unixtime, isdst, dayPc, diff, monPc,
                   canAct, onRoute, monsterPos, lastTargetSeen, lastTargetPosition,
                   foundMonster, script, canselfheal, canFight, has_attacked,
                   makeRandomStep, stepGoal, truthy, did, textPc, german, english, is_same,
                   playerChatScript, speaker, activeLanguage, inRange, hearerLang,
                   tempMessage, heard, npcHeard, monsterHeard>>

TalkNext == \E tt \in TalkTypes : sendMessageToAllCharsInRange(tt)

\* variant: NPCs and monsters are told whoever speaks
LanguageRecipients_unguarded(tt, lang, cc) ==
    LET range == getTalkRange(tt)
        players == findAllCharactersInRangeOf("player", charPos[cc], range)
        npcs == findAllCharactersInRangeOf("npc", charPos[cc], range)
        monsters == findAllCharactersInRangeOf("monster", charPos[cc], range)
    IN  {player \in players : charLang[player] = lang} \cup npcs \cup monsters

\* the characters whose receiveText sendLanguageMessageToAllCharsInRange calls
LanguageRecipients(tt, lang, cc) ==
    LET range == getTalkRange(tt)
        players == findAllCharactersInRangeOf("player", charPos[cc], range)
        npcs == findAllCharactersInRangeOf("npc", charPos[cc], range)
        monsters == findAllCharactersInRangeOf("monster", charPos[cc], range)
    IN  {player \in players : charLang[player] = lang} \cup
        (IF charType[cc] = "player" THEN npcs \cup monsters ELSE {})

sendLanguageMessageToAllCharsInRange(tt, lang) ==
    /\ talkType' = tt
    /\ talkLang' = lang
    /\ received' = LanguageRecipients(tt, lang, 0)
    /\ UNCHANGED <<clock, timeStart, now, usedAP, ap, pc, Players, online, lastkeepalive,
                   Monsters, newMonsters, nextMonsterId, monAlive, Npc, npcAlive,
                   tempkeepalive, todo, lostPlayers, deadMonsters, grantP, grantM, grantN,
                   visitedM, spin, phaseLog, available, lastTick, logout, workedOut,
                   fieldMissing, caught, handedAP, monPos, spawn, randDir, dir, charType,
                   charPos, charLang, charAlive, monsterType, itemRight, itemLeft,
                   canAttack, weaponRange, temp, target, immediatePlayerCommands,
                   mutexOwner, drainPc, drainPlayer, ioPc, ioPlayer, enqLog, deqLog,
                   execLog, deqOnline, testOnline, SpawnList, monSpawn, loadResult, rows,
                   faultAt, prevSpawnList, dangling, unixtime, isdst, dayPc, diff, monPc,
                   canAct, onRoute, monsterPos, lastTargetSeen, lastTargetPosition,
                   foundMonster, script, canselfheal, canFight, has_attacked,
                   makeRandomStep, stepGoal, truthy, did, textPc, german, english, is_same,
                   playerChatScript, speaker, activeLanguage, inRange, hearerLang,
                   tempMessage, heard, npcHeard, monsterHeard>>

(***************************************************************************)
(* The near-target query of a monster that is not on a route               *)
(* (World::checkMonsters, lines 368-392) and World::getTargetsInRange.     *)
(* Character 0 is the monster that takes its turn.                         *)
(***************************************************************************)
NoTarget == -1
NoRange == -1

\* ids of items; 0 is the id of an empty slot
ItemIds == 0..3

\* Data::WeaponItems: the items 1 and 2 have an entry, with its Range
WeaponItems == [i \in {1, 2} |-> [Range |-> i + 1]]

\* variant: the left tool is preferred
WeaponRange_leftFirst(itr, itl) ==
    IF itl \in DOMAIN WeaponItems THEN WeaponItems[itl].Range
    ELSE IF itr \in DOMAIN WeaponItems THEN WeaponItems[itr].Range
    ELSE 1

\* uint16_t range=1; if (Data::WeaponItems.exists(itr.getId())) ... else if ...
WeaponRange(itr, itl) ==
    IF itr \in DOMAIN WeaponItems THEN WeaponItems[itr].Range
    ELSE IF itl \in DOMAIN WeaponItems THEN WeaponItems[itl].Range
    ELSE 1

\* Players / Monsters .findAllAliveCharactersInRangeOf(center, range)
findAllAliveCharactersInRangeOf(type, center, range) ==
    {c \in findAllCharactersInRangeOf(type, center, range) : charAlive[c]}

\* variant: the monsters are not tested for their position
getTargetsInRange_withSelf(pos, radius) ==
    LET range == [radius |-> radius, zRadius |-> 0]
    IN  findAllAliveCharactersInRangeOf("player", pos, range) \cup
        findAllAliveCharactersInRangeOf("monster", pos, range)

\* World::getTargetsInRange
getTargetsInRange(pos, radius) ==
    LET range == [radius |-> radius, zRadius |-> 0]
        players == findAllAliveCharactersInRangeOf("player", pos, range)
        monsters == findAllAliveCharactersInRangeOf("monster", pos, range)
    IN  players \cup {monster \in monsters : ~(pos = charPos[monster])}

\* the positions of the characters around the monster
TargetXs == 0..4
TargetYs == {0, 1}
TargetZs == {0, 1}
TargetPositions == {<<x, y, z>> : x \in TargetXs, y \in TargetYs, z \in TargetZs}

MonsterTypes == {1, 2}

\* no monster is followed through its target query
TargetOff ==
    /\ charAlive = [c \in TalkChars |-> TRUE]
    /\ monsterType = [c \in TalkChars |-> 0]
    /\ itemRight = 0
    /\ itemLeft = 0
    /\ canAttack = TRUE
    /\ weaponRange = NoRange
    /\ temp = {}
    /\ target = NoTarget

\* a live monster with its tools, and the characters around it
TargetInit ==
    /\ charType \in {f \in [TalkChars -> CharTypes] : f[0] = "monster"}
    /\ charPos \in {f \in [TalkChars -> TargetPositions] : f[0] = <<0, 0, 0>>}
    /\ charAlive \in {f \in [TalkChars -> BOOLEAN] : f[0]}
    /\ monsterType \in {f \in [TalkChars -> {0} \cup MonsterTypes] :
                           /\ f[0] = 1
                           /\ \A c \in TalkChars : f[c] = 0 <=> charType[c] # "monster"}
    /\ itemRight \in ItemIds
    /\ itemLeft \in ItemIds
    /\ canAttack = TRUE
    /\ weaponRange = NoRange
    /\ temp = {}
    /\ target = NoTarget
    /\ talkType = NoTalk
    /\ received = {}
    /\ charLang = [c \in TalkChars |-> "english"]
    /\ talkLang = NoLang

\* lines 368-392: the range of the weapon, the query, and the target that
\* the species script or the standard fighting script picks from temp
nearTargetQuery ==
    /\ weaponRange = NoRange
    /\ weaponRange' = WeaponRange(itemRight, itemLeft)
    /\ temp' = getTargetsInRange(charPos[0], weaponRange')
    /\ canAttack' \in BOOLEAN
    /\ IF temp' # {} /\ canAttack'
       THEN target' \in temp'
       ELSE target' = NoTarget
    /\ UNCHANGED <<clock, timeStart, now, usedAP, ap, pc, Players, online, lastkeepalive,
                   Monsters, newMonsters, nextMonsterId, monAlive, Npc, npcAlive,
                   tempkeepalive, todo, lostPlayers, deadMonsters, grantP, grantM, grantN,
                   visitedM, spin, phaseLog, available, lastTick, logout, workedOut,
                   fieldMissing, caught, handedAP, monPos, spawn, randDir, dir, charType,
                   charPos, talkType, received, charLang, talkLang, charAlive, monsterType,
                   itemRight, itemLeft, immediatePlayerCommands, mutexOwner, drainPc,
                   drainPlayer, ioPc, ioPlayer, enqLog, deqLog, execLog, deqOnline,
                   testOnline, SpawnList, monSpawn, loadResult, rows, faultAt,
                   prevSpawnList, dangling, unixtime, isdst, dayPc, diff, monPc, canAct,
                   onRoute, monsterPos, lastTargetSeen, lastTargetPosition, foundMonster,
                   script, canselfheal, canFight, has_attacked, makeRandomStep, stepGoal,
                   truthy, did, textPc, german, english, is_same, playerChatScript,
                   speaker, activeLanguage, inRange, hearerLang, tempMessage, heard,
                   npcHeard, monsterHeard>>

TargetNext == nearTargetQuery

(***************************************************************************)
(* The queue of immediate commands: World::checkPlayerImmediateCommands    *)
(* on the main thread and World::addPlayerImmediateActionQueue on the I/O  *)
(* threads.                                                                *)
(***************************************************************************)
IoThreads == 1..MaxIoThreads
NoThread == 0
MainThread == -1
NoPlayer == 0

\* variant: lock.unlock() leaves the mutex with its owner
unlock_kept(owner) == owner

\* lock.unlock(), and the destructor of a unique_lock that owns the mutex
unlock(owner) == NoThread

DrainOff ==
    /\ immediatePlayerCommands = <<>>
    /\ mutexOwner = NoThread
    /\ drainPc = "idle"
    /\ drainPlayer = NoPlayer
    /\ ioPc = [t \in IoThreads |-> "idle"]
    /\ ioPlayer = [t \in IoThreads |-> NoPlayer]
    /\ enqLog = <<>>
    /\ deqLog = <<>>
    /\ execLog = <<>>
    /\ deqOnline = <<>>
    /\ testOnline = <<>>

\* variant: the loop takes the entry that was pushed last
front_back(q) == q[Len(q)]

\* immediatePlayerCommands.front()
front(q) == Head(q)

\* addPlayerImmediateActionQueue: std::unique_lock<std::mutex> lock(...)
addLock(t, p) ==
    /\ ioPc[t] = "idle"
    /\ p \in Players
    /\ Len(enqLog) + Cardinality({u \in IoThreads : ioPc[u] = "locked"}) < MaxEnqueues
    /\ mutexOwner = NoThread
    /\ mutexOwner' = t
    /\ ioPc' = [ioPc EXCEPT ![t] = "locked"]
    /\ ioPlayer' = [ioPlayer EXCEPT ![t] = p]
    /\ UNCHANGED <<clock, timeStart, now, usedAP, ap, pc, Players, online, lastkeepalive,
                   Monsters, newMonsters, nextMonsterId, monAlive, Npc, npcAlive,
                   tempkeepalive, todo, lostPlayers, deadMonsters, grantP, grantM, grantN,
                   visitedM, spin, phaseLog, available, lastTick, logout, workedOut,
                   fieldMissing, caught, handedAP, monPos, spawn, randDir, dir, charType,
                   charPos, talkType, received, charLang, talkLang, charAlive, monsterType,
                   itemRight, itemLeft, canAttack, weaponRange, temp, target,
                   immediatePlayerCommands, drainPc, drainPlayer, enqLog, deqLog, execLog,
                   deqOnline, testOnline, SpawnList, monSpawn, loadResult, rows, faultAt,
                   prevSpawnList, dangling, unixtime, isdst, dayPc, diff, monPc, canAct,
                   onRoute, monsterPos, lastTargetSeen, lastTargetPosition, foundMonster,
                   script, canselfheal, canFight, has_attacked, makeRandomStep, stepGoal,
                   truthy, did, textPc, german, english, is_same, playerChatScript,
                   speaker, activeLanguage, inRange, hearerLang, tempMessage, heard,
                   npcHeard, monsterHeard>>

\* immediatePlayerCommands.push(player); the lock is released on return
addPush(t) ==
    /\ ioPc[t] = "locked"
    /\ immediatePlayerCommands' = Append(immediatePlayerCommands, ioPlayer[t])
    /\ enqLog' = Append(enqLog, ioPlayer[t])
    /\ mutexOwner' = unlock(mutexOwner)
    /\ ioPc' = [ioPc EXCEPT ![t] = "idle"]
    /\ ioPlayer' = [ioPlayer EXCEPT ![t] = NoPlayer]
    /\ UNCHANGED <<clock, timeStart, now, usedAP, ap, pc, Players, online, lastkeepalive,
                   Monsters, newMonsters, nextMonsterId, monAlive, Npc, npcAlive,
                   tempkeepalive, todo, lostPlayers, deadMonsters, grantP, grantM, grantN,
                   visitedM, spin, phaseLog, available, lastTick, logout, workedOut,
                   fieldMissing, caught, handedAP, monPos, spawn, randDir, dir, charType,
                   charPos, talkType, received, charLang, talkLang, charAlive, monsterType,
                   itemRight, itemLeft, canAttack, weaponRange, temp, target, drainPc,
                   drainPlayer, deqLog, execLog, deqOnline, testOnline, SpawnList,
                   monSpawn, loadResult, rows, faultAt, prevSpawnList, dangling, unixtime,
                   isdst, dayPc, diff, monPc, canAct, onRoute, monsterPos, lastTargetSeen,
                   lastTargetPosition, foundMonster, script, canselfheal, canFight,
                   has_attacked, makeRandomStep, stepGoal, truthy, did, textPc, german,
                   english, is_same, playerChatScript, speaker, activeLanguage, inRange,
                   hearerLang, tempMessage, heard, npcHeard, monsterHeard>>

\* checkPlayerImmediateCommands: std::unique_lock<std::mutex> lock(...)
drainLock ==
    /\ drainPc = "idle"
    /\ mutexOwner = NoThread
    /\ mutexOwner' = MainThread
    /\ drainPc' = "while"
    /\ UNCHANGED <<clock, timeStart, now, usedAP, ap, pc, Players, online, lastkeepalive,
                   Monsters, newMonsters, nextMonsterId, monAlive, Npc, npcAlive,
                   tempkeepalive, todo, lostPlayers, deadMonsters, grantP, grantM, grantN,
                   visitedM, spin, phaseLog, available, lastTick, logout, workedOut,
                   fieldMissing, caught, handedAP, monPos, spawn, randDir, dir, charType,
                   charPos, talkType, received, charLang, talkLang, charAlive, monsterType,
                   itemRight, itemLeft, canAttack, weaponRange, temp, target,
                   immediatePlayerCommands, drainPlayer, ioPc, ioPlayer, enqLog, deqLog,
                   execLog, deqOnline, testOnline, SpawnList, monSpawn, loadResult, rows,
                   faultAt, prevSpawnList, dangling, unixtime, isdst, dayPc, diff, monPc,
                   canAct, onRoute, monsterPos, lastTargetSeen, lastTargetPosition,
                   foundMonster, script, canselfheal, canFight, has_attacked,
                   makeRandomStep, stepGoal, truthy, did, textPc, german, english, is_same,
                   playerChatScript, speaker, activeLanguage, inRange, hearerLang,
                   tempMessage, heard, npcHeard, monsterHeard>>

\* while (!immediatePlayerCommands.empty()) { player = front(); pop();
\* the function returns when the queue is empty, which releases the lock
drainTest ==
    /\ drainPc = "while"
    /\ IF immediatePlayerCommands = <<>>
       THEN /\ mutexOwner' = unlock(mutexOwner)
            /\ drainPc' = "idle"
            /\ UNCHANGED <<drainPlayer, immediatePlayerCommands, deqLog, deqOnline>>
       ELSE /\ drainPlayer' = front(immediatePlayerCommands)
            /\ immediatePlayerCommands' = Tail(immediatePlayerCommands)
            /\ deqLog' = Append(deqLog, front(immediatePlayerCommands))
            /\ deqOnline' = Append(deqOnline, online[front(immediatePlayerCommands)])
            /\ drainPc' = "unlock"
            /\ UNCHANGED mutexOwner
    /\ UNCHANGED <<clock, timeStart, now, usedAP, ap, pc, Players, online, lastkeepalive,
                   Monsters, newMonsters, nextMonsterId, monAlive, Npc, npcAlive,
                   tempkeepalive, todo, lostPlayers, deadMonsters, grantP, grantM, grantN,
                   visitedM, spin, phaseLog, available, lastTick, logout, workedOut,
                   fieldMissing, caught, handedAP, monPos, spawn, randDir, dir, charType,
                   charPos, talkType, received, charLang, talkLang, charAlive, monsterType,
                   itemRight, itemLeft, canAttack, weaponRange, temp, target, ioPc,
                   ioPlayer, enqLog, execLog, testOnline, SpawnList, monSpawn, loadResult,
                   rows, faultAt, prevSpawnList, dangling, unixtime, isdst, dayPc, diff,
                   monPc, canAct, onRoute, monsterPos, lastTargetSeen, lastTargetPosition,
                   foundMonster, script, canselfheal, canFight, has_attacked,
                   makeRandomStep, stepGoal, truthy, did, textPc, german, english, is_same,
                   playerChatScript, speaker, activeLanguage, inRange, hearerLang,
                   tempMessage, heard, npcHeard, monsterHeard>>

\* lock.unlock();
drainUnlock ==
    /\ drainPc = "unlock"
    /\ mutexOwner' = unlock(mutexOwner)
    /\ drainPc' = "execute"
    /\ UNCHANGED <<clock, timeStart, now, usedAP, ap, pc, Players, online, lastkeepalive,
                   Monsters, newMonsters, nextMonsterId, monAlive, Npc, npcAlive,
                   tempkeepalive, todo, lostPlayers, deadMonsters, grantP, grantM, grantN,
                   visitedM, spin, phaseLog, available, lastTick, logout, workedOut,
                   fieldMissing, caught, handedAP, monPos, spawn, randDir, dir, charType,
                   charPos, talkType, received, charLang, talkLang, charAlive, monsterType,
                   itemRight, itemLeft, canAttack, weaponRange, temp, target,
                   immediatePlayerCommands, drainPlayer, ioPc, ioPlayer, enqLog, deqLog,
                   execLog, deqOnline, testOnline, SpawnList, monSpawn, loadResult, rows,
                   faultAt, prevSpawnList, dangling, unixtime, isdst, dayPc, diff, monPc,
                   canAct, onRoute, monsterPos, lastTargetSeen, lastTargetPosition,
                   foundMonster, script, canselfheal, canFight, has_attacked,
                   makeRandomStep, stepGoal, truthy, did, textPc, german, english, is_same,
                   playerChatScript, speaker, activeLanguage, inRange, hearerLang,
                   tempMessage, heard, npcHeard, monsterHeard>>

\* if (player->Connection->online) player->workoutCommands();
drainExecute ==
    /\ drainPc = "execute"
    /\ execLog' = IF online[drainPlayer] THEN Append(execLog, drainPlayer) ELSE execLog
    /\ testOnline' = Append(testOnline, online[drainPlayer])
    /\ drainPc' = "lock"
    /\ UNCHANGED <<clock, timeStart, now, usedAP, ap, pc, Players, online, lastkeepalive,
                   Monsters, newMonsters, nextMonsterId, monAlive, Npc, npcAlive,
                   tempkeepalive, todo, lostPlayers, deadMonsters, grantP, grantM, grantN,
                   visitedM, spin, phaseLog, available, lastTick, logout, workedOut,
                   fieldMissing, caught, handedAP, monPos, spawn, randDir, dir, charType,
                   charPos, talkType, received, charLang, talkLang, charAlive, monsterType,
                   itemRight, itemLeft, canAttack, weaponRange, temp, target,
                   immediatePlayerCommands, mutexOwner, drainPlayer, ioPc, ioPlayer,
                   enqLog, deqLog, deqOnline, SpawnList, monSpawn, loadResult, rows,
                   faultAt, prevSpawnList, dangling, unixtime, isdst, dayPc, diff, monPc,
                   canAct, onRoute, monsterPos, lastTargetSeen, lastTargetPosition,
                   foundMonster, script, canselfheal, canFight, has_attacked,
                   makeRandomStep, stepGoal, truthy, did, textPc, german, english, is_same,
                   playerChatScript, speaker, activeLanguage, inRange, hearerLang,
                   tempMessage, heard, npcHeard, monsterHeard>>

\* lock.lock();
drainRelock ==
    /\ drainPc = "lock"
    /\ mutexOwner = NoThread
    /\ mutexOwner' = MainThread
    /\ drainPlayer' = NoPlayer
    /\ drainPc' = "while"
    /\ UNCHANGED <<clock, timeStart, now, usedAP, ap, pc, Players, online, lastkeepalive,
                   Monsters, newMonsters, nextMonsterId, monAlive, Npc, npcAlive,
                   tempkeepalive, todo, lostPlayers, deadMonsters, grantP, grantM, grantN,
                   visitedM, spin, phaseLog, available, lastTick, logout, workedOut,
                   fieldMissing, caught, handedAP, monPos, spawn, randDir, dir, charType,
                   charPos, talkType, received, charLang, talkLang, charAlive, monsterType,
                   itemRight, itemLeft, canAttack, weaponRange, temp, target,
                   immediatePlayerCommands, ioPc, ioPlayer, enqLog, deqLog, execLog,
                   deqOnline, testOnline, SpawnList, monSpawn, loadResult, rows, faultAt,
                   prevSpawnList, dangling, unixtime, isdst, dayPc, diff, monPc, canAct,
                   onRoute, monsterPos, lastTargetSeen, lastTargetPosition, foundMonster,
                   script, canselfheal, canFight, has_attacked, makeRandomStep, stepGoal,
                   truthy, did, textPc, german, english, is_same, playerChatScript,
                   speaker, activeLanguage, inRange, hearerLang, tempMessage, heard,
                   npcHeard, monsterHeard>>

(***************************************************************************)
(* World::initRespawns                                                     *)
(***************************************************************************)
SpawnIds == 1..MaxSpawnId
NoFault == -1
NotLoaded == "none"

\* the tables the query can return: up to MaxRows rows with different ids
SpawnTables ==
    {t \in UNION {[1..n -> SpawnIds] : n \in 0..MaxRows} :
        \A i, j \in 1..Len(t) : i # j => t[i] # t[j]}

RespawnOff ==
    /\ SpawnList = <<>>
    /\ monSpawn = [m \in MonsterIds |-> 0]
    /\ loadResult = NotLoaded
    /\ rows = <<>>
    /\ faultAt = NoFault
    /\ prevSpawnList = <<>>
    /\ dangling = {}

\* the world after its start: initRespawns has loaded a table of one row
RespawnLoaded ==
    /\ SpawnList = <<1>>
    /\ monSpawn = [m \in MonsterIds |-> 0]
    /\ loadResult = "true"
    /\ rows = <<1>>
    /\ faultAt = NoFault
    /\ prevSpawnList = <<>>
    /\ dangling = {}

\* variant: the monster keeps the spawn point it had
setSpawn_kept(current, point) == current

\* monster->setSpawn(point)
setSpawn(current, point) == point

\* the spawn points that were pushed when the function returns: all rows,
\* or the rows before the one whose reading threw; none if execute() threw
Pushed(table, fault) ==
    IF fault = NoFault THEN table ELSE SubSeq(table, 1, fault - 1)

\* the whole function; fault = 0 stands for an exception of query.execute(),
\* fault = i for an exception of row[...].as<>() or newSpawn.load() at row i.
\* monster->remove() takes the hitpoints of the monster; SpawnList.clear()
\* destroys every spawn point there was, so whichever monster of the registry
\* or of the buffer still has a spawn point then has a destroyed one
initRespawns ==
    /\ \E table \in SpawnTables, fault \in ({NoFault} \cup 0..MaxRows) :
          /\ fault <= Len(table)
          /\ rows' = table
          /\ faultAt' = fault
          /\ SpawnList' = Pushed(table, fault)
          /\ loadResult' = IF fault # NoFault THEN "false"
                           ELSE IF table = <<>> THEN "false"
                           ELSE "true"
    /\ prevSpawnList' = SpawnList
    /\ monAlive' = [m \in MonsterIds |-> IF m \in Monsters THEN FALSE ELSE monAlive[m]]
    /\ monSpawn' = [m \in MonsterIds |->
                        IF m \in Monsters THEN setSpawn(monSpawn[m], 0) ELSE monSpawn[m]]
    /\ dangling' = {m \in Monsters \cup Range(newMonsters) : monSpawn'[m] # 0}
    /\ UNCHANGED <<clock, timeStart, now, usedAP, ap, pc, Players, online, lastkeepalive,
                   Monsters, newMonsters, nextMonsterId, Npc, npcAlive, tempkeepalive,
                   todo, lostPlayers, deadMonsters, grantP, grantM, grantN, visitedM, spin,
                   phaseLog, available, lastTick, logout, workedOut, fieldMissing, caught,
                   handedAP, monPos, spawn, randDir, dir, charType, charPos, talkType,
                   received, charLang, talkLang, charAlive, monsterType, itemRight,
                   itemLeft, canAttack, weaponRange, temp, target, immediatePlayerCommands,
                   mutexOwner, drainPc, drainPlayer, ioPc, ioPlayer, enqLog, deqLog,
                   execLog, deqOnline, testOnline, unixtime, isdst, dayPc, diff, monPc,
                   canAct, onRoute, monsterPos, lastTargetSeen, lastTargetPosition,
                   foundMonster, script, canselfheal, canFight, has_attacked,
                   makeRandomStep, stepGoal, truthy, did, textPc, german, english, is_same,
                   playerChatScript, speaker, activeLanguage, inRange, hearerLang,
                   tempMessage, heard, npcHeard, monsterHeard>>

RespawnNext == initRespawns

\* a caller of initRespawns: the command of a player that reloads the spawn
\* points, worked out in the player phase; one such command per tick
reloadCommand ==
    /\ pc = "forEachPlayer"
    /\ workedOut # {}
    /\ prevSpawnList = <<>>
    /\ initRespawns

(***************************************************************************)
(* getNextIGDayTime: when the task update_ig_day runs for the first time.  *)
(* The time point it returns is steady_clock::now() + diff.                *)
(***************************************************************************)
UnixTimes == {FirstUnixTime + k * TimeStep : k \in 0..MaxTimeSteps}

DayOff ==
    /\ unixtime = FirstUnixTime
    /\ isdst = FALSE
    /\ dayPc = "idle"
    /\ diff = 0

DayInit ==
    /\ unixtime \in UnixTimes
    /\ isdst \in BOOLEAN
    /\ dayPc = "idle"
    /\ diff = 0

\* a % n of C++: the result has the sign of a
Rem(a, n) == IF a >= 0 THEN a % n ELSE -((-a) % n)

\* the value of curr_unixtime that is handed to system_clock::from_time_t
DayChange(t, dst) ==
    LET shifted == IF dst THEN t + DST_SHIFT ELSE t
        sinceEpoch == shifted - IG_EPOCH
        rounded == sinceEpoch - Rem(sinceEpoch, IG_DAY)
    IN  rounded + IG_DAY

getNextIGDayTime ==
    /\ dayPc = "idle"
    /\ diff' = DayChange(unixtime, isdst) - unixtime
    /\ dayPc' = "scheduled"
    /\ UNCHANGED <<clock, timeStart, now, usedAP, ap, pc, Players, online, lastkeepalive,
                   Monsters, newMonsters, nextMonsterId, monAlive, Npc, npcAlive,
                   tempkeepalive, todo, lostPlayers, deadMonsters, grantP, grantM, grantN,
                   visitedM, spin, phaseLog, available, lastTick, logout, workedOut,
                   fieldMissing, caught, handedAP, monPos, spawn, randDir, dir, charType,
                   charPos, talkType, received, charLang, talkLang, charAlive, monsterType,
                   itemRight, itemLeft, canAttack, weaponRange, temp, target,
                   immediatePlayerCommands, mutexOwner, drainPc, drainPlayer, ioPc,
                   ioPlayer, enqLog, deqLog, execLog, deqOnline, testOnline, SpawnList,
                   monSpawn, loadResult, rows, faultAt, prevSpawnList, dangling, unixtime,
                   isdst, monPc, canAct, onRoute, monsterPos, lastTargetSeen,
                   lastTargetPosition, foundMonster, script, canselfheal, canFight,
                   has_attacked, makeRandomStep, stepGoal, truthy, did, textPc, german,
                   english, is_same, playerChatScript, speaker, activeLanguage, inRange,
                   hearerLang, tempMessage, heard, npcHeard, monsterHeard>>

DayNext == getNextIGDayTime

(***************************************************************************)
(* The broadcasts among live and dead characters.                          *)
(***************************************************************************)
\* the places of the characters: inside every radius, inside the radius of
\* say and yell only, outside every radius
TalkAllXs == {1, 14, 31}
TalkAllPositions == {<<x, 0, 0>> : x \in TalkAllXs}

\* the speaker, and around it live and dead characters of every kind
TalkAllInit ==
    /\ charType \in [TalkChars -> CharTypes]
    /\ charPos \in {f \in [TalkChars -> TalkAllPositions \cup {<<0, 0, 0>>}] :
                       /\ f[0] = <<0, 0, 0>>
                       /\ \A c \in Listeners : f[c] \in TalkAllPositions}
    /\ charAlive \in {f \in [TalkChars -> BOOLEAN] : f[0]}
    /\ charLang \in {f \in [TalkChars -> Languages] :
                        \A c \in TalkChars : charType[c] # "player" => f[c] = "english"}
    /\ talkType = NoTalk
    /\ talkLang = NoLang
    /\ received = {}
    /\ monsterType = [c \in TalkChars |-> 0]
    /\ itemRight = 0
    /\ itemLeft = 0
    /\ canAttack = TRUE
    /\ weaponRange = NoRange
    /\ temp = {}
    /\ target = NoTarget

TalkAllNext ==
    \/ \E tt \in TalkTypes : sendMessageToAllCharsInRange(tt)
    \/ \E tt \in TalkTypes, lang \in Languages :
          sendLanguageMessageToAllCharsInRange(tt, lang)

(***************************************************************************)
(* World::World, and the world after its start                             *)
(***************************************************************************)
TickInit ==
    /\ clock \in {StartSecond * 1000 + k * ClockStep : k \in 0..1}
    /\ timeStart = (clock \div 1000) * 1000
    /\ now = timeStart
    /\ usedAP = 0
    /\ ap = 0
    /\ pc = "idle"
    /\ Players = {}
    /\ online = [p \in PlayerIds |-> FALSE]
    /\ lastkeepalive = [p \in PlayerIds |-> 0]
    /\ Monsters = {}
    /\ newMonsters = <<>>
    /\ nextMonsterId = 1
    /\ monAlive = [m \in MonsterIds |-> TRUE]
    /\ Npc = {}
    /\ npcAlive = [n \in NpcIds |-> TRUE]
    /\ tempkeepalive = 0
    /\ todo = {}
    /\ lostPlayers = <<>>
    /\ deadMonsters = <<>>
    /\ grantP = [p \in PlayerIds |-> NoGrant]
    /\ grantM = [m \in MonsterIds |-> NoGrant]
    /\ grantN = [n \in NpcIds |-> NoGrant]
    /\ visitedM = {}
    /\ spin = {}
    /\ phaseLog = <<>>
    /\ available = 0
    /\ lastTick = -1
    /\ logout = [p \in PlayerIds |-> NoCommand]
    /\ workedOut = {}
    /\ fieldMissing = {}
    /\ caught = {}
    /\ handedAP = 0

\* no monster is followed on its random steps
WanderOff ==
    /\ monPos = <<0, 0>>
    /\ spawn = NoSpawn
    /\ randDir = NoDir
    /\ dir = NoDir

\* no broadcast is followed
TalkOff ==
    /\ charType = [c \in TalkChars |-> "player"]
    /\ charPos = [c \in TalkChars |-> <<0, 0, 0>>]
    /\ talkType = NoTalk
    /\ received = {}
    /\ charLang = [c \in TalkChars |-> "english"]
    /\ talkLang = NoLang

(***************************************************************************)
(* The turn of one live monster in World::checkMonsters (lines 362-599):   *)
(* what the lambda calls, in order.                                        *)
(***************************************************************************)
\* the tiles around the monster
Places == 0..2
NoPlace == -1

\* no monster is followed through its turn
MonsterOff ==
    /\ monPc = "off"
    /\ canAct = TRUE
    /\ onRoute = FALSE
    /\ monsterPos = 0
    /\ lastTargetSeen = FALSE
    /\ lastTargetPosition = 0
    /\ foundMonster = TRUE
    /\ script = FALSE
    /\ canselfheal = FALSE
    /\ canFight = TRUE
    /\ has_attacked = FALSE
    /\ makeRandomStep = FALSE
    /\ stepGoal = NoPlace
    /\ truthy = {}
    /\ did = <<>>

\* a live monster before the lambda tests canAct
MonsterInit ==
    /\ monPc = "start"
    /\ canAct \in BOOLEAN
    /\ onRoute \in BOOLEAN
    /\ monsterPos \in Places
    /\ lastTargetSeen \in BOOLEAN
    /\ lastTargetPosition \in Places
    /\ foundMonster \in BOOLEAN
    /\ script \in BOOLEAN
    /\ canselfheal \in BOOLEAN
    /\ canFight \in BOOLEAN
    /\ has_attacked = FALSE
    /\ makeRandomStep = FALSE
    /\ stepGoal = NoPlace
    /\ truthy = {}
    /\ did = <<>>

\* where a character that getTargetsInRange returns can stand
TargetPlaces == Places \ {monsterPos}

\* if (!monStruct.script || !monStruct.script->setTarget(...))
\*     target = standardFightingScript->setTarget(...)
setTarget(hasScript, scriptPicked) ==
    IF hasScript
    THEN <<"script.setTarget">> \o
         (IF scriptPicked THEN <<>> ELSE <<"standard.setTarget">>)
    ELSE <<"standard.setTarget">>

\* if (monster.canAct()) fails
skipTurn ==
    /\ monPc = "start"
    /\ ~canAct
    /\ monPc' = "done"
    /\ UNCHANGED <<clock, timeStart, now, usedAP, ap, pc, Players, online, lastkeepalive,
                   Monsters, newMonsters, nextMonsterId, monAlive, Npc, npcAlive,
                   tempkeepalive, todo, lostPlayers, deadMonsters, grantP, grantM, grantN,
                   visitedM, spin, phaseLog, available, lastTick, logout, workedOut,
                   fieldMissing, caught, handedAP, monPos, spawn, randDir, dir, charType,
                   charPos, talkType, received, charLang, talkLang, charAlive, monsterType,
                   itemRight, itemLeft, canAttack, weaponRange, temp, target,
                   immediatePlayerCommands, mutexOwner, drainPc, drainPlayer, ioPc,
                   ioPlayer, enqLog, deqLog, execLog, deqOnline, testOnline, SpawnList,
                   monSpawn, loadResult, rows, faultAt, prevSpawnList, dangling, unixtime,
                   isdst, dayPc, diff, canAct, onRoute, monsterPos, lastTargetSeen,
                   lastTargetPosition, foundMonster, script, canselfheal, canFight,
                   has_attacked, makeRandomStep, stepGoal, truthy, did, textPc, german,
                   english, is_same, playerChatScript, speaker, activeLanguage, inRange,
                   hearerLang, tempMessage, heard, npcHeard, monsterHeard>>

\* lines 363-392: the reset of lastTargetSeen, the scan of the weapon range
\* and the target that setTarget resolves (found, NoPlace for nullptr)
nearScan ==
    /\ monPc = "start"
    /\ canAct
    /\ ~onRoute
    /\ \E nonEmpty \in BOOLEAN, scriptPicked \in BOOLEAN,
          found \in TargetPlaces \cup {NoPlace} :
          LET seen == IF monsterPos = lastTargetPosition THEN FALSE
                      ELSE lastTargetSeen
          IN  IF nonEmpty /\ canAttack
              THEN IF found # NoPlace
                   THEN /\ did' = did \o setTarget(script, scriptPicked) \o <<"target">>
                        /\ lastTargetPosition' = found
                        /\ lastTargetSeen' = TRUE
                        /\ monPc' = "enemyNear"
                   ELSE /\ did' = did \o setTarget(script, scriptPicked)
                        /\ lastTargetPosition' = lastTargetPosition
                        /\ lastTargetSeen' = seen
                        /\ monPc' = "view"
              ELSE /\ did' = did
                   /\ lastTargetPosition' = lastTargetPosition
                   /\ lastTargetSeen' = seen
                   /\ monPc' = "view"
    /\ UNCHANGED <<clock, timeStart, now, usedAP, ap, pc, Players, online, lastkeepalive,
                   Monsters, newMonsters, nextMonsterId, monAlive, Npc, npcAlive,
                   tempkeepalive, todo, lostPlayers, deadMonsters, grantP, grantM, grantN,
                   visitedM, spin, phaseLog, available, lastTick, logout, workedOut,
                   fieldMissing, caught, handedAP, monPos, spawn, randDir, dir, charType,
                   charPos, talkType, received, charLang, talkLang, charAlive, monsterType,
                   itemRight, itemLeft, canAttack, weaponRange, temp, target,
                   immediatePlayerCommands, mutexOwner, drainPc, drainPlayer, ioPc,
                   ioPlayer, enqLog, deqLog, execLog, deqOnline, testOnline, SpawnList,
                   monSpawn, loadResult, rows, faultAt, prevSpawnList, dangling, unixtime,
                   isdst, dayPc, diff, canAct, onRoute, monsterPos, foundMonster, script,
                   canselfheal, canFight, has_attacked, makeRandomStep, stepGoal, truthy,
                   textPc, german, english, is_same, playerChatScript, speaker,
                   activeLanguage, inRange, hearerLang, tempMessage, heard, npcHeard,
                   monsterHeard>>

\* lines 394-402: the hook enemyNear of the species script; a truthy
\* result returns from the lambda
enemyNearHook ==
    /\ monPc = "enemyNear"
    /\ IF foundMonster
       THEN IF script
            THEN \E result \in BOOLEAN :
                    /\ did' = did \o <<"enemyNear">> \o
                                     (IF result THEN <<"return">> ELSE <<>>)
                    /\ truthy' = IF result THEN truthy \cup {"enemyNear"} ELSE truthy
                    /\ monPc' = IF result THEN "done" ELSE "turn"
            ELSE /\ did' = did
                 /\ truthy' = truthy
                 /\ monPc' = "turn"
       ELSE /\ did' = did \o <<"log">>
            /\ truthy' = truthy
            /\ monPc' = "turn"
    /\ UNCHANGED <<clock, timeStart, now, usedAP, ap, pc, Players, online, lastkeepalive,
                   Monsters, newMonsters, nextMonsterId, monAlive, Npc, npcAlive,
                   tempkeepalive, todo, lostPlayers, deadMonsters, grantP, grantM, grantN,
                   visitedM, spin, phaseLog, available, lastTick, logout, workedOut,
                   fieldMissing, caught, handedAP, monPos, spawn, randDir, dir, charType,
                   charPos, talkType, received, charLang, talkLang, charAlive, monsterType,
                   itemRight, itemLeft, canAttack, weaponRange, temp, target,
                   immediatePlayerCommands, mutexOwner, drainPc, drainPlayer, ioPc,
                   ioPlayer, enqLog, deqLog, execLog, deqOnline, testOnline, SpawnList,
                   monSpawn, loadResult, rows, faultAt, prevSpawnList, dangling, unixtime,
                   isdst, dayPc, diff, canAct, onRoute, monsterPos, lastTargetSeen,
                   lastTargetPosition, foundMonster, script, canselfheal, canFight,
                   has_attacked, makeRandomStep, stepGoal, textPc, german, english,
                   is_same, playerChatScript, speaker, activeLanguage, inRange, hearerLang,
                   tempMessage, heard, npcHeard, monsterHeard>>

\* variant: a monster that cannot fight has not attacked
Fight_idle(able, result) == IF able THEN result ELSE FALSE

\* if (monster.canFight()) has_attacked = characterAttacks(monsterPointer);
\* else has_attacked = true;
Fight(able, result) == IF able THEN result ELSE TRUE

\* lines 404-410: monster.turn(target->getPosition()) and the attack
turnAndFight ==
    /\ monPc = "turn"
    /\ \E result \in BOOLEAN :
          /\ did' = did \o <<"turn">> \o
                           (IF canFight THEN <<"characterAttacks">> ELSE <<>>)
          /\ has_attacked' = Fight(canFight, result)
          /\ monPc' = IF has_attacked' THEN "done" ELSE "view"
    /\ UNCHANGED <<clock, timeStart, now, usedAP, ap, pc, Players, online, lastkeepalive,
                   Monsters, newMonsters, nextMonsterId, monAlive, Npc, npcAlive,
                   tempkeepalive, todo, lostPlayers, deadMonsters, grantP, grantM, grantN,
                   visitedM, spin, phaseLog, available, lastTick, logout, workedOut,
                   fieldMissing, caught, handedAP, monPos, spawn, randDir, dir, charType,
                   charPos, talkType, received, charLang, talkLang, charAlive, monsterType,
                   itemRight, itemLeft, canAttack, weaponRange, temp, target,
                   immediatePlayerCommands, mutexOwner, drainPc, drainPlayer, ioPc,
                   ioPlayer, enqLog, deqLog, execLog, deqOnline, testOnline, SpawnList,
                   monSpawn, loadResult, rows, faultAt, prevSpawnList, dangling, unixtime,
                   isdst, dayPc, diff, canAct, onRoute, monsterPos, lastTargetSeen,
                   lastTargetPosition, foundMonster, script, canselfheal, canFight,
                   makeRandomStep, stepGoal, truthy, textPc, german, english, is_same,
                   playerChatScript, speaker, activeLanguage, inRange, hearerLang,
                   tempMessage, heard, npcHeard, monsterHeard>>

\* lines 415-447: the scan of the view range, the target that setTarget
\* resolves, the hook enemyOnSight and the step; the result holds what was
\* called, lastTargetSeen, lastTargetPosition, the argument of performStep,
\* makeRandomStep and whether the lambda returned
ViewBlock(nonEmpty, scriptPicked, found, result) ==
    LET calls == <<"viewScan">> \o
                 (IF nonEmpty /\ canAttack THEN setTarget(script, scriptPicked)
                  ELSE <<>>)
        base == [did |-> calls, seen |-> lastTargetSeen, last |-> lastTargetPosition,
                 goal |-> NoPlace, random |-> TRUE, returned |-> FALSE]
    IN  IF nonEmpty /\ canAttack
        THEN IF found # NoPlace
             THEN LET t == [base EXCEPT !.did = @ \o <<"sightTarget">>, !.seen = TRUE,
                                        !.last = found]
                  IN  IF foundMonster
                      THEN IF script /\ result
                           THEN [t EXCEPT !.did = @ \o <<"enemyOnSight", "return">>,
                                          !.returned = TRUE]
                           ELSE [t EXCEPT !.did = @ \o (IF script
                                                        THEN <<"enemyOnSight">>
                                                        ELSE <<>>) \o <<"performStep">>,
                                          !.random = FALSE, !.goal = found]
                      ELSE [t EXCEPT !.did = @ \o <<"log">>]
             ELSE base
        ELSE IF lastTargetSeen
             THEN [base EXCEPT !.did = @ \o <<"performStep">>, !.random = FALSE,
                               !.goal = lastTargetPosition]
             ELSE base

\* if (!has_attacked) { ... } up to the test of makeRandomStep
viewBlock ==
    /\ monPc = "view"
    /\ \E nonEmpty \in BOOLEAN, scriptPicked \in BOOLEAN,
          found \in TargetPlaces \cup {NoPlace}, result \in BOOLEAN :
          LET v == ViewBlock(nonEmpty, scriptPicked, found, result)
          IN  /\ did' = did \o v.did
              /\ lastTargetSeen' = v.seen
              /\ lastTargetPosition' = v.last
              /\ stepGoal' = v.goal
              /\ makeRandomStep' = v.random
              /\ truthy' = IF v.returned THEN truthy \cup {"enemyOnSight"} ELSE truthy
              /\ monPc' = IF v.returned THEN "done"
                          ELSE IF v.random THEN "random" ELSE "done"
    /\ UNCHANGED <<clock, timeStart, now, usedAP, ap, pc, Players, online, lastkeepalive,
                   Monsters, newMonsters, nextMonsterId, monAlive, Npc, npcAlive,
                   tempkeepalive, todo, lostPlayers, deadMonsters, grantP, grantM, grantN,
                   visitedM, spin, phaseLog, available, lastTick, logout, workedOut,
                   fieldMissing, caught, handedAP, monPos, spawn, randDir, dir, charType,
                   charPos, talkType, received, charLang, talkLang, charAlive, monsterType,
                   itemRight, itemLeft, canAttack, weaponRange, temp, target,
                   immediatePlayerCommands, mutexOwner, drainPc, drainPlayer, ioPc,
                   ioPlayer, enqLog, deqLog, execLog, deqOnline, testOnline, SpawnList,
                   monSpawn, loadResult, rows, faultAt, prevSpawnList, dangling, unixtime,
                   isdst, dayPc, diff, canAct, onRoute, monsterPos, foundMonster, script,
                   canselfheal, canFight, has_attacked, textPc, german, english, is_same,
                   playerChatScript, speaker, activeLanguage, inRange, hearerLang,
                   tempMessage, heard, npcHeard, monsterHeard>>

\* lines 449-541: the self-healing or the random step
randomBlock ==
    /\ monPc = "random"
    /\ \E tempr \in 1..25 :
          LET hasDefinition == foundMonster
              logged == IF hasDefinition THEN <<>> ELSE <<"log">>
          IN  IF tempr <= 5 /\ hasDefinition /\ canselfheal
              THEN did' = did \o logged \o <<"heal">>
              ELSE did' = did \o logged \o <<"move">>
    /\ monPc' = "done"
    /\ UNCHANGED <<clock, timeStart, now, usedAP, ap, pc, Players, online, lastkeepalive,
                   Monsters, newMonsters, nextMonsterId, monAlive, Npc, npcAlive,
                   tempkeepalive, todo, lostPlayers, deadMonsters, grantP, grantM, grantN,
                   visitedM, spin, phaseLog, available, lastTick, logout, workedOut,
                   fieldMissing, caught, handedAP, monPos, spawn, randDir, dir, charType,
                   charPos, talkType, received, charLang, talkLang, charAlive, monsterType,
                   itemRight, itemLeft, canAttack, weaponRange, temp, target,
                   immediatePlayerCommands, mutexOwner, drainPc, drainPlayer, ioPc,
                   ioPlayer, enqLog, deqLog, execLog, deqOnline, testOnline, SpawnList,
                   monSpawn, loadResult, rows, faultAt, prevSpawnList, dangling, unixtime,
                   isdst, dayPc, diff, canAct, onRoute, monsterPos, lastTargetSeen,
                   lastTargetPosition, foundMonster, script, canselfheal, canFight,
                   has_attacked, makeRandomStep, stepGoal, truthy, textPc, german, english,
                   is_same, playerChatScript, speaker, activeLanguage, inRange, hearerLang,
                   tempMessage, heard, npcHeard, monsterHeard>>

\* what a scan of the branch of a monster on a route calls (lines 557-571
\* and 575-587); the value the hook returns is not read
routeScan(hook, nonEmpty, scriptPicked, resolved, logs) ==
    IF nonEmpty
    THEN setTarget(script, scriptPicked) \o
         (IF resolved
          THEN IF foundMonster /\ script THEN <<hook>>
               ELSE IF logs THEN <<"log">> ELSE <<>>
          ELSE <<>>)
    ELSE <<>>

\* variant: a monster whose step failed stays on its route
setOnRoute_kept(current, value) == current

\* monster.setOnRoute(value)
setOnRoute(current, value) == value

\* lines 543-598: the turn of a monster on a route
routeBranch ==
    /\ monPc = "start"
    /\ canAct
    /\ onRoute
    /\ \E nearNonEmpty \in BOOLEAN, nearPicked \in BOOLEAN, nearResolved \in BOOLEAN,
          nearResult \in BOOLEAN, viewNonEmpty \in BOOLEAN, viewPicked \in BOOLEAN,
          viewResolved \in BOOLEAN, viewResult \in BOOLEAN, moved \in BOOLEAN :
          LET near == routeScan("enemyNear", nearNonEmpty, nearPicked, nearResolved, TRUE)
              view == routeScan("enemyOnSight", viewNonEmpty, viewPicked, viewResolved,
                                FALSE)
              called == Range(near \o view)
          IN  /\ truthy' = {h \in {"enemyNear", "enemyOnSight"} \cap called :
                               IF h = "enemyNear" THEN nearResult ELSE viewResult}
              /\ did' = near \o view \o <<"makeMove">> \o
                        (IF moved THEN <<>>
                         ELSE IF foundMonster /\ script THEN <<"abortRoute">>
                         ELSE <<"log">>)
              /\ onRoute' = IF moved THEN onRoute ELSE setOnRoute(onRoute, FALSE)
    /\ monPc' = "done"
    /\ UNCHANGED <<clock, timeStart, now, usedAP, ap, pc, Players, online, lastkeepalive,
                   Monsters, newMonsters, nextMonsterId, monAlive, Npc, npcAlive,
                   tempkeepalive, todo, lostPlayers, deadMonsters, grantP, grantM, grantN,
                   visitedM, spin, phaseLog, available, lastTick, logout, workedOut,
                   fieldMissing, caught, handedAP, monPos, spawn, randDir, dir, charType,
                   charPos, talkType, received, charLang, talkLang, charAlive, monsterType,
                   itemRight, itemLeft, canAttack, weaponRange, temp, target,
                   immediatePlayerCommands, mutexOwner, drainPc, drainPlayer, ioPc,
                   ioPlayer, enqLog, deqLog, execLog, deqOnline, testOnline, SpawnList,
                   monSpawn, loadResult, rows, faultAt, prevSpawnList, dangling, unixtime,
                   isdst, dayPc, diff, canAct, monsterPos, lastTargetSeen,
                   lastTargetPosition, foundMonster, script, canselfheal, canFight,
                   has_attacked, makeRandomStep, stepGoal, textPc, german, english,
                   is_same, playerChatScript, speaker, activeLanguage, inRange, hearerLang,
                   tempMessage, heard, npcHeard, monsterHeard>>

MonsterNext ==
    \/ skipTurn
    \/ nearScan
    \/ enemyNearHook
    \/ turnAndFight
    \/ viewBlock
    \/ randomBlock
    \/ routeBranch

(***************************************************************************)
(* Properties of the turn of a monster.                                    *)
(***************************************************************************)
\* the turn has called e
Did(e) == \E i \in 1..Len(did) : did[i] = e

\* the turn has called a before it called b
Before(a, b) == \E i, j \in 1..Len(did) : i < j /\ did[i] = a /\ did[j] = b

\* the turn ran the branch of a monster on a route
TookRoute == Did("makeMove")

\* the turn has made one of the movements of a monster that did not attack
Movement == Did("performStep") \/ Did("heal") \/ Did("move")

\* C21 as stated: a monster that is not on a route and acquires a target
\* within the range of its weapon is turned to the target before the hook
\* enemyNear is called, so it also faces the target where the hook returns a
\* truthy value and the lambda returns.
C21_FacesBeforeHook ==
    ~TookRoute =>
        /\ Did("enemyNear") => Before("turn", "enemyNear")
        /\ (monPc = "done" /\ "enemyNear" \in truthy) => Did("turn")

\* C22: a monster that is not on a route and has acquired a target within
\* the range of its weapon scans its view range or moves (step to a target,
\* step to the last known position, self-healing, random step) only after
\* characterAttacks was called and returned false; where the hook enemyNear
\* returned a truthy value, or the monster cannot fight, none of these
\* happens in the turn.
C22_MovesOnlyAfterFailedAttack ==
    (~TookRoute /\ Did("target")) =>
        /\ (Did("viewScan") \/ Movement) =>
               /\ Before("characterAttacks", "viewScan")
               /\ canFight
               /\ ~has_attacked
               /\ "enemyNear" \notin truthy
        /\ "enemyNear" \in truthy =>
               monPc = "done" /\ ~Did("viewScan") /\ ~Movement
        /\ (~canFight /\ Did("turn")) =>
               monPc = "done" /\ has_attacked /\ ~Did("viewScan") /\ ~Movement

\* a monster whose attack failed has taken a random step
C22_Witness ==
    /\ monPc = "done"
    /\ ~TookRoute
    /\ Did("target")
    /\ Before("characterAttacks", "move")
    /\ ~has_attacked

\* C23 as stated: in the turn of a monster that is not on a route and did
\* not attack, where the scan of the view range resolves no target and
\* lastTargetSeen is set, the monster steps to lastTargetPosition and takes
\* no random step; the random step and the self-healing happen only where
\* no target was resolved and lastTargetSeen is not set.
C23_StepsToLastKnown ==
    (monPc \in {"random", "done"} /\ Did("viewScan") /\ "enemyOnSight" \notin truthy) =>
        /\ (~Did("sightTarget") /\ lastTargetSeen) =>
               /\ Did("performStep")
               /\ stepGoal = lastTargetPosition
               /\ ~makeRandomStep
               /\ ~Did("heal") /\ ~Did("move")
        /\ (makeRandomStep \/ Did("heal") \/ Did("move")) =>
               ~Did("sightTarget") /\ ~lastTargetSeen

\* what C24 takes as the default policy, the turn of a monster that has no
\* script: setTarget of the standard fighting script chooses the target, a
\* target within the range of the weapon is faced and, if the monster can
\* fight, attacked, and a target within view is approached by performStep
\* and not by a random step
DefaultPolicy ==
    /\ ~Did("script.setTarget")
    /\ ~Did("enemyNear") /\ ~Did("enemyOnSight")
    /\ (Did("target") /\ monPc \in {"view", "random", "done"}) =>
           /\ Did("turn")
           /\ canFight => Did("characterAttacks")
    /\ (Did("sightTarget") /\ monPc \in {"random", "done"}) =>
           /\ Did("performStep")
           /\ stepGoal = lastTargetPosition
           /\ ~makeRandomStep
           /\ ~Did("heal") /\ ~Did("move")

\* C24 as stated: a monster that is not on a route and whose species data or
\* script is absent behaves as the default policy says, as a monster does
\* whose species data exists and has no script.
C24_DefaultPolicyWithoutData ==
    (~TookRoute /\ ~script) => DefaultPolicy

\* the number of times the turn has called e
RECURSIVE Count(_, _)
Count(e, log) ==
    IF log = <<>> THEN 0
    ELSE (IF Head(log) = e THEN 1 ELSE 0) + Count(e, Tail(log))

\* C25: a monster on a route that can act attempts exactly one waypoint
\* step in its turn, after the scans and the hooks, whatever the scans find
\* and the hooks return; it neither attacks nor wanders; if the step fails,
\* the monster is taken off the route and the hook abortRoute of its species
\* script is called, and if it succeeds the monster stays on the route.
C25_OneWaypointStep ==
    /\ (monPc = "done" /\ canAct /\ (onRoute \/ TookRoute)) =>
           /\ Count("makeMove", did) = 1
           /\ ~Before("makeMove", "enemyNear") /\ ~Before("makeMove", "enemyOnSight")
           /\ ~Did("return")
           /\ ~Did("turn") /\ ~Did("characterAttacks") /\ ~Movement
           /\ onRoute <=> did[Len(did)] = "makeMove"
           /\ (~onRoute /\ foundMonster /\ script) =>
                  /\ did[Len(did)] = "abortRoute"
                  /\ Count("abortRoute", did) = 1
           /\ onRoute => ~Did("abortRoute")
    /\ (monPc # "done" /\ onRoute) => did = <<>>

\* a monster whose hooks returned truthy values and whose step failed
C25_Witness ==
    /\ monPc = "done"
    /\ truthy = {"enemyNear", "enemyOnSight"}
    /\ Before("enemyOnSight", "makeMove")
    /\ ~onRoute
    /\ Did("abortRoute")

(***************************************************************************)
(* The texts that World::sendMessageToAllCharsInRange hands to the         *)
(* listeners (WorldIMPLTalk.cpp, lines 146-201 and 253-255).  A text is a  *)
(* sequence of characters; a language prefix is one element.               *)
(***************************************************************************)
\* the players around the speaker
Hearers == 1..MaxHearers

\* cc is a monster or an NPC
NoHearer == 0

\* the texts a caller or a script supplies
Texts == {<<"#", "m", "e", " ", "x">>, <<"#", "m", "e">>, <<"#", "m">>,
          <<"h", "i">>, <<"j", "a">>}

\* the values of cc->getActiveLanguage() that are followed
ActiveLanguages == {0, 1, 8}

\* World::languagePrefix
languagePrefix(Language) ==
    IF Language = 0 THEN <<>>
    ELSE IF Language = 1 THEN <<"[Human] ">>
    ELSE IF Language = 2 THEN <<"[Dwarf] ">>
    ELSE IF Language = 3 THEN <<"[Elf] ">>
    ELSE IF Language = 4 THEN <<"[Lizard] ">>
    ELSE IF Language = 5 THEN <<"[Orc] ">>
    ELSE IF Language = 6 THEN <<"[Halfing] ">>
    ELSE IF Language = 7 THEN <<"[Ancient] ">>
    ELSE <<>>

\* std::string::substr(pos, n): at most n characters from position pos
substr(s, pos, n) ==
    SubSeq(s, pos + 1, IF pos + n < Len(s) THEN pos + n ELSE Len(s))

\* bool is_action = german.substr(0, 3) == "#me"
IsAction(text) == substr(text, 0, 3) = <<"#", "m", "e">>

\* player->nls(german, english): the text in the language of the player
nls(player, g, e) == IF hearerLang[player] = "german" THEN g ELSE e

\* the sequences without repetition over the set S
RECURSIVE Orders(_)
Orders(S) ==
    IF S = {} THEN {<<>>}
    ELSE UNION {{<<p>> \o o : o \in Orders(S \ {p})} : p \in S}

\* no text broadcast is followed
TextOff ==
    /\ textPc = "off"
    /\ german = <<>>
    /\ english = <<>>
    /\ is_same = FALSE
    /\ playerChatScript = FALSE
    /\ speaker = NoHearer
    /\ activeLanguage = 0
    /\ inRange = <<>>
    /\ hearerLang = [p \in Hearers |-> "english"]
    /\ tempMessage = <<>>
    /\ heard = [p \in Hearers |-> <<>>]
    /\ npcHeard = <<>>
    /\ monsterHeard = <<>>

\* a call of sendMessageToAllCharsInRange: with two texts, or through the
\* overload that hands the same string for both; a player that speaks is
\* within its own range
TextInit ==
    /\ textPc = "call"
    /\ german \in Texts
    /\ english \in Texts
    /\ is_same \in BOOLEAN
    /\ is_same => german = english
    /\ playerChatScript \in BOOLEAN
    /\ speaker \in Hearers \cup {NoHearer}
    /\ activeLanguage \in ActiveLanguages
    /\ inRange \in UNION {Orders(S) : S \in SUBSET Hearers}
    /\ speaker # NoHearer => \E i \in 1..Len(inRange) : inRange[i] = speaker
    /\ hearerLang \in [Hearers -> Languages]
    /\ tempMessage = <<>>
    /\ heard = [p \in Hearers |-> <<>>]
    /\ npcHeard = <<>>
    /\ monsterHeard = <<>>

\* lines 170-187: the body of the loop over the players for one player;
\* the result holds tempMessage and the text handed to receiveText
TellPlayer(player, current, is_action, prefix) ==
    IF ~is_action /\ player # speaker
    THEN LET t == IF is_same /\ playerChatScript THEN current
                  ELSE nls(player, german, english)
         IN  [temp |-> t, text |-> prefix \o t]
    ELSE LET t == IF ~is_same THEN nls(player, german, english) ELSE current
         IN  [temp |-> t, text |-> IF is_action THEN t ELSE prefix \o t]

\* lines 169-188: the loop over the players in range, in their order; the
\* result holds tempMessage and what each player has received
RECURSIVE TellPlayers(_, _, _, _, _)
TellPlayers(order, current, got, is_action, prefix) ==
    IF order = <<>> THEN [temp |-> current, heard |-> got]
    ELSE LET r == TellPlayer(Head(order), current, is_action, prefix)
         IN  TellPlayers(Tail(order), r.temp,
                         [got EXCEPT ![Head(order)] = @ \o <<r.text>>],
                         is_action, prefix)

\* World::sendMessageToAllCharsInRange(german, english, tt, cc): the texts.
\* sent is what playerChatScript->beforeSendText returns, altered what
\* npc->alterSpokenMessage returns.
sendMessageTexts ==
    /\ textPc = "call"
    /\ \E sent \in Texts, altered \in Texts :
          LET is_action == IsAction(german)
              filtered == /\ ~is_action
                          /\ speaker # NoHearer
                          /\ is_same
                          /\ playerChatScript
              start == IF filtered THEN sent ELSE <<>>
              prefix == languagePrefix(activeLanguage)
              told == TellPlayers(inRange, start, heard, is_action, prefix)
          IN  /\ heard' = told.heard
              /\ IF speaker # NoHearer
                 THEN /\ tempMessage' = prefix \o altered
                      /\ npcHeard' = <<prefix \o altered>>
                      /\ monsterHeard' = <<english>>
                 ELSE /\ tempMessage' = told.temp
                      /\ npcHeard' = npcHeard
                      /\ monsterHeard' = monsterHeard
    /\ textPc' = "done"
    /\ UNCHANGED <<clock, timeStart, now, usedAP, ap, pc, Players, online, lastkeepalive,
                   Monsters, newMonsters, nextMonsterId, monAlive, Npc, npcAlive,
                   tempkeepalive, todo, lostPlayers, deadMonsters, grantP, grantM, grantN,
                   visitedM, spin, phaseLog, available, lastTick, logout, workedOut,
                   fieldMissing, caught, handedAP, monPos, spawn, randDir, dir, charType,
                   charPos, talkType, received, charLang, talkLang, charAlive, monsterType,
                   itemRight, itemLeft, canAttack, weaponRange, temp, target,
                   immediatePlayerCommands, mutexOwner, drainPc, drainPlayer, ioPc,
                   ioPlayer, enqLog, deqLog, execLog, deqOnline, testOnline, SpawnList,
                   monSpawn, loadResult, rows, faultAt, prevSpawnList, dangling, unixtime,
                   isdst, dayPc, diff, monPc, canAct, onRoute, monsterPos, lastTargetSeen,
                   lastTargetPosition, foundMonster, script, canselfheal, canFight,
                   has_attacked, makeRandomStep, stepGoal, truthy, did, german, english,
                   is_same, playerChatScript, speaker, activeLanguage, inRange, hearerLang>>

TextNext == sendMessageTexts

\* C30 as stated: for a text that starts with "#me", every player in range
\* receives the text itself, in the language of the player, without the
\* language prefix, also where the same string is handed for both languages
\* as the overload with one message does.
C30_ActionTextDelivered ==
    (textPc = "done" /\ IsAction(german)) =>
        \A i \in 1..Len(inRange) :
            heard[inRange[i]] = <<nls(inRange[i], german, english)>>

\* C31 as stated: for a text that is no action and that a player speaks, the
\* speaker receives the language prefix followed by the text it sent, in its
\* language, wherever the speaker stands in the order of the players in
\* range, whoever was told before, and with or without a chat script.
C31_SpeakerHearsOwnText ==
    (textPc = "done" /\ ~IsAction(german) /\ speaker # NoHearer) =>
        heard[speaker] =
            <<languagePrefix(activeLanguage) \o nls(speaker, german, english)>>

Init == TickInit /\ WanderOff /\ TalkOff /\ TargetOff /\ DrainOff /\ RespawnLoaded /\ DayOff /\ MonsterOff /\ TextOff

(***************************************************************************)
(* The environment of the tick thread.                                     *)
(***************************************************************************)
\* the wall clock moves (forward, or backward when it is set); the tick
\* thread reads it only on entry of turntheworld and of checkPlayers, so a
\* change during the phases is the same as a change right after them
ClockChange ==
    /\ pc = "idle"
    /\ clock' \in ClockValues \ {clock}
    /\ UNCHANGED <<timeStart, now, usedAP, ap, pc, Players, online, lastkeepalive,
                   Monsters, newMonsters, nextMonsterId, monAlive, Npc, npcAlive,
                   tempkeepalive, todo, lostPlayers, deadMonsters, grantP, grantM, grantN,
                   visitedM, spin, phaseLog, available, lastTick, logout, workedOut,
                   fieldMissing, caught, handedAP, monPos, spawn, randDir, dir, charType,
                   charPos, talkType, received, charLang, talkLang, charAlive, monsterType,
                   itemRight, itemLeft, canAttack, weaponRange, temp, target,
                   immediatePlayerCommands, mutexOwner, drainPc, drainPlayer, ioPc,
                   ioPlayer, enqLog, deqLog, execLog, deqOnline, testOnline, SpawnList,
                   monSpawn, loadResult, rows, faultAt, prevSpawnList, dangling, unixtime,
                   isdst, dayPc, diff, monPc, canAct, onRoute, monsterPos, lastTargetSeen,
                   lastTargetPosition, foundMonster, script, canselfheal, canFight,
                   has_attacked, makeRandomStep, stepGoal, truthy, did, textPc, german,
                   english, is_same, playerChatScript, speaker, activeLanguage, inRange,
                   hearerLang, tempMessage, heard, npcHeard, monsterHeard>>

\* a player logs in: the connection lifecycle inserts it between two ticks
Login(p) ==
    /\ pc = "idle"
    /\ p \notin Players
    /\ Players' = Players \cup {p}
    /\ online' = [online EXCEPT ![p] = TRUE]
    /\ lastkeepalive' = [lastkeepalive EXCEPT ![p] = clock \div 1000]
    /\ UNCHANGED <<clock, timeStart, now, usedAP, ap, pc, Monsters, newMonsters,
                   nextMonsterId, monAlive, Npc, npcAlive, tempkeepalive, todo,
                   lostPlayers, deadMonsters, grantP, grantM, grantN, visitedM, spin,
                   phaseLog, available, lastTick, logout, workedOut, fieldMissing, caught,
                   handedAP, monPos, spawn, randDir, dir, charType, charPos, talkType,
                   received, charLang, talkLang, charAlive, monsterType, itemRight,
                   itemLeft, canAttack, weaponRange, temp, target, immediatePlayerCommands,
                   mutexOwner, drainPc, drainPlayer, ioPc, ioPlayer, enqLog, deqLog,
                   execLog, deqOnline, testOnline, SpawnList, monSpawn, loadResult, rows,
                   faultAt, prevSpawnList, dangling, unixtime, isdst, dayPc, diff, monPc,
                   canAct, onRoute, monsterPos, lastTargetSeen, lastTargetPosition,
                   foundMonster, script, canselfheal, canFight, has_attacked,
                   makeRandomStep, stepGoal, truthy, did, textPc, german, english, is_same,
                   playerChatScript, speaker, activeLanguage, inRange, hearerLang,
                   tempMessage, heard, npcHeard, monsterHeard>>

\* the connection of a player is closed (network thread)
Disconnect(p) ==
    /\ p \in Players
    /\ online[p]
    /\ online' = [online EXCEPT ![p] = FALSE]
    /\ UNCHANGED <<clock, timeStart, now, usedAP, ap, pc, Players, lastkeepalive, Monsters,
                   newMonsters, nextMonsterId, monAlive, Npc, npcAlive, tempkeepalive,
                   todo, lostPlayers, deadMonsters, grantP, grantM, grantN, visitedM, spin,
                   phaseLog, available, lastTick, logout, workedOut, fieldMissing, caught,
                   handedAP, monPos, spawn, randDir, dir, charType, charPos, talkType,
                   received, charLang, talkLang, charAlive, monsterType, itemRight,
                   itemLeft, canAttack, weaponRange, temp, target, immediatePlayerCommands,
                   mutexOwner, drainPc, drainPlayer, ioPc, ioPlayer, enqLog, deqLog,
                   execLog, deqOnline, testOnline, SpawnList, monSpawn, loadResult, rows,
                   faultAt, prevSpawnList, dangling, unixtime, isdst, dayPc, diff, monPc,
                   canAct, onRoute, monsterPos, lastTargetSeen, lastTargetPosition,
                   foundMonster, script, canselfheal, canFight, has_attacked,
                   makeRandomStep, stepGoal, truthy, did, textPc, german, english, is_same,
                   playerChatScript, speaker, activeLanguage, inRange, hearerLang,
                   tempMessage, heard, npcHeard, monsterHeard>>

\* a keepalive of the client arrives
KeepAlive(p) ==
    /\ p \in Players
    /\ online[p]
    /\ lastkeepalive[p] # clock \div 1000
    /\ lastkeepalive' = [lastkeepalive EXCEPT ![p] = clock \div 1000]
    /\ UNCHANGED <<clock, timeStart, now, usedAP, ap, pc, Players, online, Monsters,
                   newMonsters, nextMonsterId, monAlive, Npc, npcAlive, tempkeepalive,
                   todo, lostPlayers, deadMonsters, grantP, grantM, grantN, visitedM, spin,
                   phaseLog, available, lastTick, logout, workedOut, fieldMissing, caught,
                   handedAP, monPos, spawn, randDir, dir, charType, charPos, talkType,
                   received, charLang, talkLang, charAlive, monsterType, itemRight,
                   itemLeft, canAttack, weaponRange, temp, target, immediatePlayerCommands,
                   mutexOwner, drainPc, drainPlayer, ioPc, ioPlayer, enqLog, deqLog,
                   execLog, deqOnline, testOnline, SpawnList, monSpawn, loadResult, rows,
                   faultAt, prevSpawnList, dangling, unixtime, isdst, dayPc, diff, monPc,
                   canAct, onRoute, monsterPos, lastTargetSeen, lastTargetPosition,
                   foundMonster, script, canselfheal, canFight, has_attacked,
                   makeRandomStep, stepGoal, truthy, did, textPc, german, english, is_same,
                   playerChatScript, speaker, activeLanguage, inRange, hearerLang,
                   tempMessage, heard, npcHeard, monsterHeard>>

\* a monster of the registry loses its last hitpoint (a fight, a script)
MonsterDies(m) ==
    /\ m \in Monsters
    /\ monAlive[m]
    /\ monAlive' = [monAlive EXCEPT ![m] = FALSE]
    /\ UNCHANGED <<clock, timeStart, now, usedAP, ap, pc, Players, online, lastkeepalive,
                   Monsters, newMonsters, nextMonsterId, Npc, npcAlive, tempkeepalive,
                   todo, lostPlayers, deadMonsters, grantP, grantM, grantN, visitedM, spin,
                   phaseLog, available, lastTick, logout, workedOut, fieldMissing, caught,
                   handedAP, monPos, spawn, randDir, dir, charType, charPos, talkType,
                   received, charLang, talkLang, charAlive, monsterType, itemRight,
                   itemLeft, canAttack, weaponRange, temp, target, immediatePlayerCommands,
                   mutexOwner, drainPc, drainPlayer, ioPc, ioPlayer, enqLog, deqLog,
                   execLog, deqOnline, testOnline, SpawnList, monSpawn, loadResult, rows,
                   faultAt, prevSpawnList, dangling, unixtime, isdst, dayPc, diff, monPc,
                   canAct, onRoute, monsterPos, lastTargetSeen, lastTargetPosition,
                   foundMonster, script, canselfheal, canFight, has_attacked,
                   makeRandomStep, stepGoal, truthy, did, textPc, german, english, is_same,
                   playerChatScript, speaker, activeLanguage, inRange, hearerLang,
                   tempMessage, heard, npcHeard, monsterHeard>>

\* an NPC loses its last hitpoint
NpcDies(n) ==
    /\ n \in Npc
    /\ npcAlive[n]
    /\ npcAlive' = [npcAlive EXCEPT ![n] = FALSE]
    /\ UNCHANGED <<clock, timeStart, now, usedAP, ap, pc, Players, online, lastkeepalive,
                   Monsters, newMonsters, nextMonsterId, monAlive, Npc, tempkeepalive,
                   todo, lostPlayers, deadMonsters, grantP, grantM, grantN, visitedM, spin,
                   phaseLog, available, lastTick, logout, workedOut, fieldMissing, caught,
                   handedAP, monPos, spawn, randDir, dir, charType, charPos, talkType,
                   received, charLang, talkLang, charAlive, monsterType, itemRight,
                   itemLeft, canAttack, weaponRange, temp, target, immediatePlayerCommands,
                   mutexOwner, drainPc, drainPlayer, ioPc, ioPlayer, enqLog, deqLog,
                   execLog, deqOnline, testOnline, SpawnList, monSpawn, loadResult, rows,
                   faultAt, prevSpawnList, dangling, unixtime, isdst, dayPc, diff, monPc,
                   canAct, onRoute, monsterPos, lastTargetSeen, lastTargetPosition,
                   foundMonster, script, canselfheal, canFight, has_attacked,
                   makeRandomStep, stepGoal, truthy, did, textPc, german, english, is_same,
                   playerChatScript, speaker, activeLanguage, inRange, hearerLang,
                   tempMessage, heard, npcHeard, monsterHeard>>

\* World::initNPC: the registry is cleared and the NPC table loads it anew
initNPC ==
    /\ pc = "idle"
    /\ \E S \in SUBSET NpcIds :
          /\ S # Npc \/ \E n \in S : ~npcAlive[n]
          /\ Npc' = S
          /\ npcAlive' = [n \in NpcIds |-> TRUE]
    /\ UNCHANGED <<clock, timeStart, now, usedAP, ap, pc, Players, online, lastkeepalive,
                   Monsters, newMonsters, nextMonsterId, monAlive, tempkeepalive, todo,
                   lostPlayers, deadMonsters, grantP, grantM, grantN, visitedM, spin,
                   phaseLog, available, lastTick, logout, workedOut, fieldMissing, caught,
                   handedAP, monPos, spawn, randDir, dir, charType, charPos, talkType,
                   received, charLang, talkLang, charAlive, monsterType, itemRight,
                   itemLeft, canAttack, weaponRange, temp, target, immediatePlayerCommands,
                   mutexOwner, drainPc, drainPlayer, ioPc, ioPlayer, enqLog, deqLog,
                   execLog, deqOnline, testOnline, SpawnList, monSpawn, loadResult, rows,
                   faultAt, prevSpawnList, dangling, unixtime, isdst, dayPc, diff, monPc,
                   canAct, onRoute, monsterPos, lastTargetSeen, lastTargetPosition,
                   foundMonster, script, canselfheal, canFight, has_attacked,
                   makeRandomStep, stepGoal, truthy, did, textPc, german, english, is_same,
                   playerChatScript, speaker, activeLanguage, inRange, hearerLang,
                   tempMessage, heard, npcHeard, monsterHeard>>

(***************************************************************************)
(* World::turntheworld                                                     *)
(***************************************************************************)
turntheworld ==
    /\ pc = "idle"
    /\ now' = clock
    /\ ap' = ComputeAP(clock, timeStart, usedAP)
    /\ IF RunsPhases(ap')
       THEN /\ usedAP' = usedAP + ap'
            /\ pc' = PhaseAfter("turntheworld")
            /\ phaseLog' = <<"usedAP">>
            /\ available' = ap'
            /\ lastTick' = clock
       ELSE /\ UNCHANGED <<usedAP, pc, phaseLog, available, lastTick>>
    /\ UNCHANGED <<clock, timeStart, Players, online, lastkeepalive, Monsters, newMonsters,
                   nextMonsterId, monAlive, Npc, npcAlive, tempkeepalive, todo,
                   lostPlayers, deadMonsters, grantP, grantM, grantN, visitedM, spin,
                   logout, workedOut, fieldMissing, caught, handedAP, monPos, spawn,
                   randDir, dir, charType, charPos, talkType, received, charLang, talkLang,
                   charAlive, monsterType, itemRight, itemLeft, canAttack, weaponRange,
                   temp, target, immediatePlayerCommands, mutexOwner, drainPc, drainPlayer,
                   ioPc, ioPlayer, enqLog, deqLog, execLog, deqOnline, testOnline,
                   SpawnList, monSpawn, loadResult, rows, faultAt, prevSpawnList, dangling,
                   unixtime, isdst, dayPc, diff, monPc, canAct, onRoute, monsterPos,
                   lastTargetSeen, lastTargetPosition, foundMonster, script, canselfheal,
                   canFight, has_attacked, makeRandomStep, stepGoal, truthy, did, textPc,
                   german, english, is_same, playerChatScript, speaker, activeLanguage,
                   inRange, hearerLang, tempMessage, heard, npcHeard, monsterHeard>>

\* turntheworld returns after the NPC phase
turnDone ==
    /\ pc = "done"
    /\ pc' = "idle"
    /\ grantP' = [p \in PlayerIds |-> NoGrant]
    /\ grantM' = [m \in MonsterIds |-> NoGrant]
    /\ grantN' = [n \in NpcIds |-> NoGrant]
    /\ visitedM' = {}
    /\ spin' = {}
    /\ phaseLog' = <<>>
    /\ available' = 0
    /\ logout' = [p \in PlayerIds |-> NoCommand]
    /\ workedOut' = {}
    /\ caught' = {}
    /\ UNCHANGED <<clock, timeStart, now, usedAP, ap, Players, online, lastkeepalive,
                   Monsters, newMonsters, nextMonsterId, monAlive, Npc, npcAlive,
                   tempkeepalive, todo, lostPlayers, deadMonsters, lastTick, fieldMissing,
                   handedAP, monPos, spawn, randDir, dir, charType, charPos, talkType,
                   received, charLang, talkLang, charAlive, monsterType, itemRight,
                   itemLeft, canAttack, weaponRange, temp, target, immediatePlayerCommands,
                   mutexOwner, drainPc, drainPlayer, ioPc, ioPlayer, enqLog, deqLog,
                   execLog, deqOnline, testOnline, SpawnList, monSpawn, loadResult, rows,
                   faultAt, prevSpawnList, dangling, unixtime, isdst, dayPc, diff, monPc,
                   canAct, onRoute, monsterPos, lastTargetSeen, lastTargetPosition,
                   foundMonster, script, canselfheal, canFight, has_attacked,
                   makeRandomStep, stepGoal, truthy, did, textPc, german, english, is_same,
                   playerChatScript, speaker, activeLanguage, inRange, hearerLang,
                   tempMessage, heard, npcHeard, monsterHeard>>

(***************************************************************************)
(* World::checkPlayers                                                     *)
(***************************************************************************)
checkPlayersEntry ==
    /\ pc = "checkPlayers"
    /\ handedAP' = handedAP + ap
    /\ tempkeepalive' = clock \div 1000
    /\ lostPlayers' = <<>>
    /\ todo' = Players
    /\ pc' = "forEachPlayer"
    /\ phaseLog' = Append(phaseLog, "checkPlayers")
    /\ UNCHANGED <<clock, timeStart, now, usedAP, ap, Players, online, lastkeepalive,
                   Monsters, newMonsters, nextMonsterId, monAlive, Npc, npcAlive,
                   deadMonsters, grantP, grantM, grantN, visitedM, spin, available,
                   lastTick, logout, workedOut, fieldMissing, caught, monPos, spawn,
                   randDir, dir, charType, charPos, talkType, received, charLang, talkLang,
                   charAlive, monsterType, itemRight, itemLeft, canAttack, weaponRange,
                   temp, target, immediatePlayerCommands, mutexOwner, drainPc, drainPlayer,
                   ioPc, ioPlayer, enqLog, deqLog, execLog, deqOnline, testOnline,
                   SpawnList, monSpawn, loadResult, rows, faultAt, prevSpawnList, dangling,
                   unixtime, isdst, dayPc, diff, monPc, canAct, onRoute, monsterPos,
                   lastTargetSeen, lastTargetPosition, foundMonster, script, canselfheal,
                   canFight, has_attacked, makeRandomStep, stepGoal, truthy, did, textPc,
                   german, english, is_same, playerChatScript, speaker, activeLanguage,
                   inRange, hearerLang, tempMessage, heard, npcHeard, monsterHeard>>

\* variant: a keepalive of exactly CLIENT_TIMEOUT seconds is out of time
InTime_strict(temptime) == temptime >= 0 /\ temptime < CLIENT_TIMEOUT

\* the test of the keepalive age
InTime(temptime) == temptime >= 0 /\ temptime <= CLIENT_TIMEOUT

\* variant: the handler around fieldAt(pos).removePlayer() catches nothing
Catches_nothing(e) == FALSE

\* catch (FieldNotFound &) {}
Catches(e) == e = "FieldNotFound"

\* the body of the lambda, for one player: an online player in time gets
\* its points and works out its commands, an online player out of time is
\* sent the logout command, an offline player is logged out and collected
\* (a missing field at its position throws inside the try block); an
\* exception that nothing catches leaves the lambda, for_each, checkPlayers
\* and turntheworld
visitPlayer(p) ==
    /\ pc = "forEachPlayer"
    /\ p \in todo
    /\ IF online[p]
       THEN /\ IF InTime(tempkeepalive - lastkeepalive[p])
               THEN /\ grantP' = [grantP EXCEPT ![p] = [ap |-> ap, fp |-> ap]]
                    /\ workedOut' = workedOut \cup {p}
                    /\ UNCHANGED logout
               ELSE /\ logout' = [logout EXCEPT ![p] = UNSTABLECONNECTION]
                    /\ UNCHANGED <<grantP, workedOut>>
            /\ todo' = todo \ {p}
            /\ UNCHANGED <<pc, lostPlayers, caught>>
       ELSE IF p \in fieldMissing /\ ~Catches("FieldNotFound")
            THEN /\ pc' = "aborted"
                 /\ UNCHANGED <<todo, lostPlayers, caught, grantP, workedOut, logout>>
            ELSE /\ caught' = IF p \in fieldMissing THEN caught \cup {p} ELSE caught
                 /\ lostPlayers' = Append(lostPlayers, p)
                 /\ todo' = todo \ {p}
                 /\ UNCHANGED <<pc, grantP, workedOut, logout>>
    /\ UNCHANGED <<clock, timeStart, now, usedAP, ap, Players, online, lastkeepalive,
                   Monsters, newMonsters, nextMonsterId, monAlive, Npc, npcAlive,
                   tempkeepalive, deadMonsters, grantM, grantN, visitedM, spin, phaseLog,
                   available, lastTick, fieldMissing, handedAP, monPos, spawn, randDir,
                   dir, charType, charPos, talkType, received, charLang, talkLang,
                   charAlive, monsterType, itemRight, itemLeft, canAttack, weaponRange,
                   temp, target, immediatePlayerCommands, mutexOwner, drainPc, drainPlayer,
                   ioPc, ioPlayer, enqLog, deqLog, execLog, deqOnline, testOnline,
                   SpawnList, monSpawn, loadResult, rows, faultAt, prevSpawnList, dangling,
                   unixtime, isdst, dayPc, diff, monPc, canAct, onRoute, monsterPos,
                   lastTargetSeen, lastTargetPosition, foundMonster, script, canselfheal,
                   canFight, has_attacked, makeRandomStep, stepGoal, truthy, did, textPc,
                   german, english, is_same, playerChatScript, speaker, activeLanguage,
                   inRange, hearerLang, tempMessage, heard, npcHeard, monsterHeard>>

\* the traversal is over: the lost players are erased
erasePlayers ==
    /\ pc = "forEachPlayer"
    /\ ForEachReturned(todo)
    /\ Players' = Players \ Range(lostPlayers)
    /\ lostPlayers' = <<>>
    /\ pc' = PhaseAfter("checkPlayers")
    /\ phaseLog' = Append(phaseLog, "checkPlayers returns")
    /\ UNCHANGED <<clock, timeStart, now, usedAP, ap, online, lastkeepalive, Monsters,
                   newMonsters, nextMonsterId, monAlive, Npc, npcAlive, tempkeepalive,
                   todo, deadMonsters, grantP, grantM, grantN, visitedM, spin, available,
                   lastTick, logout, workedOut, fieldMissing, caught, handedAP, monPos,
                   spawn, randDir, dir, charType, charPos, talkType, received, charLang,
                   talkLang, charAlive, monsterType, itemRight, itemLeft, canAttack,
                   weaponRange, temp, target, immediatePlayerCommands, mutexOwner, drainPc,
                   drainPlayer, ioPc, ioPlayer, enqLog, deqLog, execLog, deqOnline,
                   testOnline, SpawnList, monSpawn, loadResult, rows, faultAt,
                   prevSpawnList, dangling, unixtime, isdst, dayPc, diff, monPc, canAct,
                   onRoute, monsterPos, lastTargetSeen, lastTargetPosition, foundMonster,
                   script, canselfheal, canFight, has_attacked, makeRandomStep, stepGoal,
                   truthy, did, textPc, german, english, is_same, playerChatScript,
                   speaker, activeLanguage, inRange, hearerLang, tempMessage, heard,
                   npcHeard, monsterHeard>>

(***************************************************************************)
(* World::checkMonsters                                                    *)
(***************************************************************************)
\* SpawnPoint::spawn: the new monsters are appended to World::newMonsters
SpawnInto(buffer, first, k) ==
    buffer \o [i \in 1..k |-> first + i - 1]

\* the monsters are created by the spawn points of SpawnList, and each new
\* monster gets the spawn point that created it
checkMonstersEntry ==
    /\ pc = "checkMonsters"
    /\ \E k \in 0..(MaxMonsters + 1 - nextMonsterId) :
          \* k = 0: the timer has not expired, spawning is disabled, or no
          \* spawn point has room
          /\ k > 0 => SpawnList # <<>>
          /\ newMonsters' = SpawnInto(newMonsters, nextMonsterId, k)
          /\ \E from \in [nextMonsterId..(nextMonsterId + k - 1) -> Range(SpawnList)] :
                monSpawn' = [m \in MonsterIds |->
                                IF m \in DOMAIN from
                                THEN setSpawn(monSpawn[m], from[m])
                                ELSE monSpawn[m]]
          /\ nextMonsterId' = nextMonsterId + k
    /\ ap' = MonsterAP(ap)
    /\ deadMonsters' = <<>>
    /\ todo' = Monsters
    /\ visitedM' = {}
    /\ pc' = "forEachMonster"
    /\ phaseLog' = Append(phaseLog, "checkMonsters")
    /\ UNCHANGED <<clock, timeStart, now, usedAP, Players, online, lastkeepalive, Monsters,
                   monAlive, Npc, npcAlive, tempkeepalive, lostPlayers, grantP, grantM,
                   grantN, spin, available, lastTick, logout, workedOut, fieldMissing,
                   caught, handedAP, monPos, spawn, randDir, dir, charType, charPos,
                   talkType, received, charLang, talkLang, charAlive, monsterType,
                   itemRight, itemLeft, canAttack, weaponRange, temp, target,
                   immediatePlayerCommands, mutexOwner, drainPc, drainPlayer, ioPc,
                   ioPlayer, enqLog, deqLog, execLog, deqOnline, testOnline, SpawnList,
                   loadResult, rows, faultAt, prevSpawnList, dangling, unixtime, isdst,
                   dayPc, diff, monPc, canAct, onRoute, monsterPos, lastTargetSeen,
                   lastTargetPosition, foundMonster, script, canselfheal, canFight,
                   has_attacked, makeRandomStep, stepGoal, truthy, did, textPc, german,
                   english, is_same, playerChatScript, speaker, activeLanguage, inRange,
                   hearerLang, tempMessage, heard, npcHeard, monsterHeard>>

\* the body of the lambda, for one monster: a live monster gets its points
\* and takes its turn (which touches neither the registry nor the buffer),
\* a dead monster is collected
visitMonster(m) ==
    /\ pc = "forEachMonster"
    /\ m \in todo
    /\ todo' = todo \ {m}
    /\ visitedM' = visitedM \cup {m}
    /\ IF monAlive[m]
       THEN /\ grantM' = [grantM EXCEPT ![m] = [ap |-> ap, fp |-> ap]]
            /\ UNCHANGED deadMonsters
       ELSE /\ deadMonsters' = Append(deadMonsters, m)
            /\ UNCHANGED grantM
    /\ UNCHANGED <<clock, timeStart, now, usedAP, ap, pc, Players, online, lastkeepalive,
                   Monsters, newMonsters, nextMonsterId, monAlive, Npc, npcAlive,
                   tempkeepalive, lostPlayers, grantP, grantN, spin, phaseLog, available,
                   lastTick, logout, workedOut, fieldMissing, caught, handedAP, monPos,
                   spawn, randDir, dir, charType, charPos, talkType, received, charLang,
                   talkLang, charAlive, monsterType, itemRight, itemLeft, canAttack,
                   weaponRange, temp, target, immediatePlayerCommands, mutexOwner, drainPc,
                   drainPlayer, ioPc, ioPlayer, enqLog, deqLog, execLog, deqOnline,
                   testOnline, SpawnList, monSpawn, loadResult, rows, faultAt,
                   prevSpawnList, dangling, unixtime, isdst, dayPc, diff, monPc, canAct,
                   onRoute, monsterPos, lastTargetSeen, lastTargetPosition, foundMonster,
                   script, canselfheal, canFight, has_attacked, makeRandomStep, stepGoal,
                   truthy, did, textPc, german, english, is_same, playerChatScript,
                   speaker, activeLanguage, inRange, hearerLang, tempMessage, heard,
                   npcHeard, monsterHeard>>

\* the traversal is over: killMonster for every collected monster
killMonsters ==
    /\ pc = "forEachMonster"
    /\ ForEachReturned(todo)
    /\ Monsters' = Monsters \ Range(deadMonsters)
    /\ deadMonsters' = <<>>
    /\ pc' = "commitMonsters"
    /\ UNCHANGED <<clock, timeStart, now, usedAP, ap, Players, online, lastkeepalive,
                   newMonsters, nextMonsterId, monAlive, Npc, npcAlive, tempkeepalive,
                   todo, lostPlayers, grantP, grantM, grantN, visitedM, spin, phaseLog,
                   available, lastTick, logout, workedOut, fieldMissing, caught, handedAP,
                   monPos, spawn, randDir, dir, charType, charPos, talkType, received,
                   charLang, talkLang, charAlive, monsterType, itemRight, itemLeft,
                   canAttack, weaponRange, temp, target, immediatePlayerCommands,
                   mutexOwner, drainPc, drainPlayer, ioPc, ioPlayer, enqLog, deqLog,
                   execLog, deqOnline, testOnline, SpawnList, monSpawn, loadResult, rows,
                   faultAt, prevSpawnList, dangling, unixtime, isdst, dayPc, diff, monPc,
                   canAct, onRoute, monsterPos, lastTargetSeen, lastTargetPosition,
                   foundMonster, script, canselfheal, canFight, has_attacked,
                   makeRandomStep, stepGoal, truthy, did, textPc, german, english, is_same,
                   playerChatScript, speaker, activeLanguage, inRange, hearerLang,
                   tempMessage, heard, npcHeard, monsterHeard>>

\* the new monsters are inserted and the buffer is cleared
commitMonsters ==
    /\ pc = "commitMonsters"
    /\ Monsters' = Monsters \cup Range(newMonsters)
    /\ newMonsters' = Cleared(newMonsters)
    /\ pc' = PhaseAfter("checkMonsters")
    /\ phaseLog' = Append(phaseLog, "checkMonsters returns")
    /\ UNCHANGED <<clock, timeStart, now, usedAP, ap, Players, online, lastkeepalive,
                   nextMonsterId, monAlive, Npc, npcAlive, tempkeepalive, todo,
                   lostPlayers, deadMonsters, grantP, grantM, grantN, visitedM, spin,
                   available, lastTick, logout, workedOut, fieldMissing, caught, handedAP,
                   monPos, spawn, randDir, dir, charType, charPos, talkType, received,
                   charLang, talkLang, charAlive, monsterType, itemRight, itemLeft,
                   canAttack, weaponRange, temp, target, immediatePlayerCommands,
                   mutexOwner, drainPc, drainPlayer, ioPc, ioPlayer, enqLog, deqLog,
                   execLog, deqOnline, testOnline, SpawnList, monSpawn, loadResult, rows,
                   faultAt, prevSpawnList, dangling, unixtime, isdst, dayPc, diff, monPc,
                   canAct, onRoute, monsterPos, lastTargetSeen, lastTargetPosition,
                   foundMonster, script, canselfheal, canFight, has_attacked,
                   makeRandomStep, stepGoal, truthy, did, textPc, german, english, is_same,
                   playerChatScript, speaker, activeLanguage, inRange, hearerLang,
                   tempMessage, heard, npcHeard, monsterHeard>>

(***************************************************************************)
(* World::checkNPC                                                         *)
(***************************************************************************)
\* deleteAllLostNPC() removes the NPCs a script has marked as lost; no NPC
\* is marked here, and being dead does not mark one
checkNPCEntry ==
    /\ pc = "checkNPC"
    /\ todo' = Npc
    /\ pc' = "forEachNPC"
    /\ phaseLog' = Append(phaseLog, "checkNPC")
    /\ UNCHANGED <<clock, timeStart, now, usedAP, ap, Players, online, lastkeepalive,
                   Monsters, newMonsters, nextMonsterId, monAlive, Npc, npcAlive,
                   tempkeepalive, lostPlayers, deadMonsters, grantP, grantM, grantN,
                   visitedM, spin, available, lastTick, logout, workedOut, fieldMissing,
                   caught, handedAP, monPos, spawn, randDir, dir, charType, charPos,
                   talkType, received, charLang, talkLang, charAlive, monsterType,
                   itemRight, itemLeft, canAttack, weaponRange, temp, target,
                   immediatePlayerCommands, mutexOwner, drainPc, drainPlayer, ioPc,
                   ioPlayer, enqLog, deqLog, execLog, deqOnline, testOnline, SpawnList,
                   monSpawn, loadResult, rows, faultAt, prevSpawnList, dangling, unixtime,
                   isdst, dayPc, diff, monPc, canAct, onRoute, monsterPos, lastTargetSeen,
                   lastTargetPosition, foundMonster, script, canselfheal, canFight,
                   has_attacked, makeRandomStep, stepGoal, truthy, did, textPc, german,
                   english, is_same, playerChatScript, speaker, activeLanguage, inRange,
                   hearerLang, tempMessage, heard, npcHeard, monsterHeard>>

\* variant: every NPC is treated as alive
TakesLiveBranch_always(alive) == TRUE

\* if (npc->isAlive()) { ... } else { ... }
TakesLiveBranch(alive) == alive

\* npc->increaseAttrib("hitpoints", MAXHPS): isAlive() afterwards
increaseAttrib(alive) == TRUE

\* the body of the lambda, for one NPC: a live NPC gets its points, a dead
\* NPC gets its hitpoints back and a spin is sent
visitNPC(n) ==
    /\ pc = "forEachNPC"
    /\ n \in todo
    /\ todo' = todo \ {n}
    /\ IF TakesLiveBranch(npcAlive[n])
       THEN /\ grantN' = [grantN EXCEPT ![n] = [ap |-> ap, fp |-> 0]]
            /\ UNCHANGED <<npcAlive, spin>>
       ELSE /\ npcAlive' = [npcAlive EXCEPT ![n] = increaseAttrib(npcAlive[n])]
            /\ spin' = spin \cup {n}
            /\ UNCHANGED grantN
    /\ UNCHANGED <<clock, timeStart, now, usedAP, ap, pc, Players, online, lastkeepalive,
                   Monsters, newMonsters, nextMonsterId, monAlive, Npc, tempkeepalive,
                   lostPlayers, deadMonsters, grantP, grantM, visitedM, phaseLog,
                   available, lastTick, logout, workedOut, fieldMissing, caught, handedAP,
                   monPos, spawn, randDir, dir, charType, charPos, talkType, received,
                   charLang, talkLang, charAlive, monsterType, itemRight, itemLeft,
                   canAttack, weaponRange, temp, target, immediatePlayerCommands,
                   mutexOwner, drainPc, drainPlayer, ioPc, ioPlayer, enqLog, deqLog,
                   execLog, deqOnline, testOnline, SpawnList, monSpawn, loadResult, rows,
                   faultAt, prevSpawnList, dangling, unixtime, isdst, dayPc, diff, monPc,
                   canAct, onRoute, monsterPos, lastTargetSeen, lastTargetPosition,
                   foundMonster, script, canselfheal, canFight, has_attacked,
                   makeRandomStep, stepGoal, truthy, did, textPc, german, english, is_same,
                   playerChatScript, speaker, activeLanguage, inRange, hearerLang,
                   tempMessage, heard, npcHeard, monsterHeard>>

checkNPCReturn ==
    /\ pc = "forEachNPC"
    /\ ForEachReturned(todo)
    /\ pc' = PhaseAfter("checkNPC")
    /\ phaseLog' = Append(phaseLog, "checkNPC returns")
    /\ UNCHANGED <<clock, timeStart, now, usedAP, ap, Players, online, lastkeepalive,
                   Monsters, newMonsters, nextMonsterId, monAlive, Npc, npcAlive,
                   tempkeepalive, todo, lostPlayers, deadMonsters, grantP, grantM, grantN,
                   visitedM, spin, available, lastTick, logout, workedOut, fieldMissing,
                   caught, handedAP, monPos, spawn, randDir, dir, charType, charPos,
                   talkType, received, charLang, talkLang, charAlive, monsterType,
                   itemRight, itemLeft, canAttack, weaponRange, temp, target,
                   immediatePlayerCommands, mutexOwner, drainPc, drainPlayer, ioPc,
                   ioPlayer, enqLog, deqLog, execLog, deqOnline, testOnline, SpawnList,
                   monSpawn, loadResult, rows, faultAt, prevSpawnList, dangling, unixtime,
                   isdst, dayPc, diff, monPc, canAct, onRoute, monsterPos, lastTargetSeen,
                   lastTargetPosition, foundMonster, script, canselfheal, canFight,
                   has_attacked, makeRandomStep, stepGoal, truthy, did, textPc, german,
                   english, is_same, playerChatScript, speaker, activeLanguage, inRange,
                   hearerLang, tempMessage, heard, npcHeard, monsterHeard>>

(***************************************************************************)
(* Properties of the tick.                                                 *)
(***************************************************************************)
\* the state of the entities and of the registries
entityVars == <<Players, online, lastkeepalive, Monsters, newMonsters, nextMonsterId,
                monAlive, Npc, npcAlive, grantP, grantM, grantN, visitedM, spin>>

\* C1: whenever turntheworld reads a clock value at least one granularity
\* after timeStart, the ap it computes is floor((now - timeStart) /
\* granularity) minus the consumed counter before the call; and whenever
\* the phases run, the value is not negative.
C1_AvailableExact ==
    [][ /\ (turntheworld /\ clock - timeStart >= MIN_AP_UPDATE) =>
              ap' = ((clock - timeStart) \div MIN_AP_UPDATE) - usedAP
        /\ pc' # "idle" => (available' >= 0 /\ ap' >= 0) ]_vars

\* a second or later tick computed from an elapsed time of several ticks
C1_Witness ==
    /\ pc = "checkPlayers"
    /\ now - timeStart >= MIN_AP_UPDATE
    /\ usedAP > ap
    /\ ap > 1

\* C2: a call of turntheworld that computes ap <= 0 runs no phase and
\* leaves the consumed counter, the entities and the registries unchanged.
C2_NonPositiveSkips ==
    [][ (turntheworld /\ ap' <= 0) =>
            (pc' = "idle" /\ UNCHANGED <<usedAP, entityVars, phaseLog, available>>) ]_vars

\* the clock was read earlier than what has been consumed
C2_Witness ==
    /\ pc = "idle"
    /\ ap < 0
    /\ usedAP > 0
    /\ now = clock

\* C3 as stated: in a tick with n > 0 available action points every
\* processed player, monster and NPC is handed exactly n.
C3_SameBudget ==
    [][ /\ \A p \in PlayerIds :
              (visitPlayer(p) /\ online[p] /\ InTime(tempkeepalive - lastkeepalive[p]))
                 => grantP'[p] = [ap |-> available, fp |-> available]
        /\ \A m \in MonsterIds :
              (visitMonster(m) /\ monAlive[m])
                 => grantM'[m] = [ap |-> available, fp |-> available]
        /\ \A n \in NpcIds :
              (visitNPC(n) /\ npcAlive[n]) => grantN'[n].ap = available ]_vars

\* what the monster phase and the NPC phase hand out in a tick with n
\* available action points
ReducedBudget(n) == IF n > 1 THEN n - 1 ELSE n

\* C3 amended: every processed player is handed n; every processed monster
\* and NPC is handed n - 1 when n > 1, and n when n = 1.
C3_PhaseBudgets ==
    [][ /\ \A p \in PlayerIds :
              (visitPlayer(p) /\ online[p] /\ InTime(tempkeepalive - lastkeepalive[p]))
                 => grantP'[p] = [ap |-> available, fp |-> available]
        /\ \A m \in MonsterIds :
              (visitMonster(m) /\ monAlive[m])
                 => grantM'[m] = [ap |-> ReducedBudget(available),
                                  fp |-> ReducedBudget(available)]
        /\ \A n \in NpcIds :
              (visitNPC(n) /\ npcAlive[n])
                 => grantN'[n].ap = ReducedBudget(available) ]_vars

\* a tick with n > 1 in which a player, a monster and an NPC were served
C3_Witness ==
    /\ pc = "done"
    /\ available > 1
    /\ \E p \in PlayerIds : grantP[p].ap = available
    /\ \E m \in MonsterIds : grantM[m].ap = available - 1
    /\ \E n \in NpcIds : grantN[n].ap = available - 1

ExpectedLog ==
    <<"usedAP", "checkPlayers", "checkPlayers returns", "checkMonsters",
      "checkMonsters returns", "checkNPC", "checkNPC returns">>

IsPrefix(s, t) == Len(s) <= Len(t) /\ \A i \in 1..Len(s) : s[i] = t[i]

\* C4: when the computed ap is positive, turntheworld first raises the
\* consumed counter and then runs checkPlayers, checkMonsters and checkNPC
\* once each, in this order, each starting after the previous has returned.
C4_PhaseOrder ==
    /\ [](/\ IsPrefix(phaseLog, ExpectedLog)
          /\ pc = "done" => phaseLog = ExpectedLog
          /\ pc # "idle" =>
                /\ Len(phaseLog) >= 1
                /\ usedAP = (now \div MIN_AP_UPDATE) - (timeStart \div MIN_AP_UPDATE))
    /\ [][ (turntheworld /\ ap' > 0) =>
              (usedAP' = usedAP + ap' /\ pc' = "checkPlayers") ]_vars

\* a tick that has run its three phases
C4_Witness ==
    /\ pc = "done"
    /\ Len(phaseLog) = 7
    /\ available > 0

\* C5: a call of turntheworld with the clock reading of the latest tick
\* that ran the phases changes no entity, no registry and not the consumed
\* counter.
C5_Idempotent ==
    [][ (turntheworld /\ clock = lastTick) =>
            (pc' = "idle" /\ UNCHANGED <<usedAP, entityVars, phaseLog>>) ]_vars

\* the state after such a repeated call
C5_Witness ==
    /\ pc = "idle"
    /\ lastTick = clock
    /\ now = clock
    /\ ap = 0
    /\ usedAP > 0
    /\ Players # {}

\* C6: a monster in newMonsters is not in the registry and is not visited
\* by the scan; the commit step puts every buffered monster into the
\* registry and leaves the buffer empty.
C6_BufferedUntilCommit ==
    /\ [](/\ Range(newMonsters) \cap Monsters = {}
          /\ Range(newMonsters) \cap visitedM = {})
    /\ [][ commitMonsters =>
              (Range(newMonsters) \subseteq Monsters' /\ newMonsters' = <<>>) ]_vars

\* right after a commit that inserted a monster the scan did not visit
C6_Witness ==
    /\ pc = "checkNPC"
    /\ newMonsters = <<>>
    /\ \E m \in Monsters : m \notin visitedM
    /\ visitedM # {}

\* C7: while a traversal of Players or Monsters is in progress the registry
\* is not changed; entities are removed only by the pass after the
\* traversal, which removes exactly the collected ones (all of which the
\* scan observed offline or dead) before the phase goes on.
C7_DeferredErase ==
    /\ [][ /\ (pc = "forEachMonster" /\ Monsters' # Monsters) =>
                 /\ todo = {}
                 /\ Monsters' = Monsters \ Range(deadMonsters)
                 /\ pc' = "commitMonsters"
           /\ (pc = "forEachPlayer" /\ Players' # Players) =>
                 /\ todo = {}
                 /\ Players' = Players \ Range(lostPlayers)
                 /\ pc' = "checkMonsters"
           /\ ~(Monsters \subseteq Monsters') => pc = "forEachMonster"
           /\ ~(Players \subseteq Players') => pc = "forEachPlayer" ]_vars
    /\ [](/\ pc = "forEachMonster" =>
                /\ Range(deadMonsters) \subseteq visitedM
                /\ \A m \in Range(deadMonsters) : ~monAlive[m]
          /\ pc = "forEachPlayer" =>
                \A p \in Range(lostPlayers) : p \in Players \ todo)

\* a scan that has collected a dead monster and still has one to visit
C7_Witness ==
    /\ pc = "forEachMonster"
    /\ deadMonsters # <<>>
    /\ todo # {}

\* C26: whatever readings the clock gave to the calls of turntheworld, the
\* consumed counter is floor(now_last / granularity) - floor(timeStart /
\* granularity), where now_last is the reading of the latest call that ran
\* the phases (0 before the first such call), and the values of ap with
\* which the player phase was entered add up to the consumed counter.
C26_NoPointLost ==
    /\ usedAP = IF lastTick = -1 THEN 0
                ELSE (lastTick \div MIN_AP_UPDATE) - (timeStart \div MIN_AP_UPDATE)
    /\ handedAP = IF pc = "checkPlayers" THEN usedAP - ap ELSE usedAP

\* a tick that caught up several action points is over, after an earlier
\* tick had run the phases
C26_Witness ==
    /\ pc = "done"
    /\ available > 1
    /\ usedAP > available
    /\ handedAP = usedAP

(***************************************************************************)
(* Properties of the random step.                                          *)
(***************************************************************************)
\* the offset from the spawn center is within the range on both axes
InSpawnRange(pos, sp) ==
    abs(sp.x - pos[1]) <= sp.range /\ abs(sp.y - pos[2]) <= sp.range

\* C8: a monster with a spawn point that is within the spawn range on both
\* axes before a random step is within it after the step, for every drawn
\* direction and every spawn range.
C8_StaysInRange ==
    [][ (randomStep /\ ~spawn.null /\ InSpawnRange(monPos, spawn))
            => InSpawnRange(monPos', spawn) ]_vars

\* the direction with the x-component (y-component) of d reversed
ReverseX(d) == CHOOSE e \in Directions : Delta(e) = <<-Delta(d)[1], Delta(d)[2]>>
ReverseY(d) == CHOOSE e \in Directions : Delta(e) = <<Delta(d)[1], -Delta(d)[2]>>

\* C9: in a random step of a monster with a spawn point the x-component of
\* the drawn direction is reversed exactly when the candidate position's
\* x-offset exceeds the spawn range, and then the y-component of that
\* x-corrected direction is reversed exactly when the candidate's y-offset
\* exceeds the range.
C9_Reflection ==
    [][ (randomStep /\ ~spawn.null) =>
            LET cand == Moved(monPos, randDir')
                xOver == abs(spawn.x - cand[1]) > spawn.range
                yOver == abs(spawn.y - cand[2]) > spawn.range
                afterX == IF xOver THEN ReverseX(randDir') ELSE randDir'
            IN  dir' = IF yOver THEN ReverseY(afterX) ELSE afterX ]_vars

\* a step drawn towards the northeast that was reversed on both axes
C9_Witness ==
    /\ ~spawn.null
    /\ randDir = "dir_northeast"
    /\ dir = "dir_southwest"
    /\ InSpawnRange(monPos, spawn)

\* the distance from the spawn center on axis i (1 for x, 2 for y)
Offset(pos, sp, i) == abs((IF i = 1 THEN sp.x ELSE sp.y) - pos[i])

\* C27 as stated: where a monster is outside of its spawn range on an axis,
\* a drawn direction that leads towards the spawn center on that axis is
\* not turned into one that leads away from it, and the random step does
\* not take the monster farther from the center on that axis.
C27_NeverFartherOutside ==
    [][ (randomStep /\ ~spawn.null) =>
            \A i \in {1, 2} :
                Offset(monPos, spawn, i) > spawn.range =>
                    /\ Offset(Moved(monPos, randDir'), spawn, i) < Offset(monPos, spawn, i)
                          => Offset(Moved(monPos, dir'), spawn, i) <= Offset(monPos, spawn, i)
                    /\ Offset(monPos', spawn, i) <= Offset(monPos, spawn, i) ]_vars

(***************************************************************************)
(* Properties of the text broadcast.                                       *)
(***************************************************************************)
\* the radius the interaction kinds are said to have
StatedRadius(tt) ==
    CASE tt = "tt_whisper" -> 2
      [] tt = "tt_say"     -> 14
      [] tt = "tt_yell"    -> 30

Max(a, b) == IF a >= b THEN a ELSE b

\* the distance of a character from the speaker on the plane
PlanarDistance(c) ==
    Max(abs(charPos[c][1] - charPos[0][1]), abs(charPos[c][2] - charPos[0][2]))

SameElevation(c) == charPos[c][3] = charPos[0][3]

C12_DeadNpcRegenerated ==
    /\ [][ /\ pc \in {"checkNPC", "forEachNPC"} => Npc' = Npc
           /\ \A n \in NpcIds :
                 /\ (pc = "forEachNPC" /\ ~npcAlive[n] /\ visitNPC(n)) =>
                       /\ npcAlive'[n]
                       /\ spin' = spin \cup {n}
                       /\ n \notin spin
                       /\ grantN' = grantN
                 /\ (pc = "forEachNPC" /\ npcAlive[n] /\ visitNPC(n)) =>
                       /\ spin' = spin
                       /\ npcAlive' = npcAlive
                       /\ grantN'[n].ap = ap
           /\ spin' # spin => (spin' = {} \/ \E n \in NpcIds : visitNPC(n))
           /\ (pc = "forEachNPC" /\ checkNPCReturn) =>
                 \A n \in Npc : n \in spin \/ grantN[n].ap > 0 ]_vars
    /\ [](spin \subseteq Npc)

\* a tick has regenerated an NPC: it is alive, still registered, and was
\* handed no action points in this tick
C12_Witness ==
    /\ pc = "done"
    /\ \E n \in Npc :
          /\ n \in spin
          /\ npcAlive[n]
          /\ grantN[n] = NoGrant

(***************************************************************************)
(* Properties of the keepalive test of the player phase.                   *)
(***************************************************************************)
\* C11: when the player phase visits an online player whose last keepalive
\* is between 0 and CLIENT_TIMEOUT seconds old (inclusive), the player stays
\* connected and registered, is handed the action points and has its
\* commands worked out; when the keepalive is CLIENT_TIMEOUT + 1 seconds old
\* or older, the visit hands the 'unstable connection' logout command to the
\* connection and the player gets no action points in that tick.
C11_KeepAliveTimeout ==
    /\ [][ \A p \in PlayerIds :
             (visitPlayer(p) /\ online[p]) =>
                LET age == tempkeepalive - lastkeepalive[p]
                IN  /\ (age >= 0 /\ age <= CLIENT_TIMEOUT) =>
                          /\ grantP'[p] = [ap |-> ap, fp |-> ap]
                          /\ p \in workedOut'
                          /\ logout'[p] = NoCommand
                          /\ online'[p]
                          /\ p \in Players'
                    /\ age >= CLIENT_TIMEOUT + 1 =>
                          /\ logout'[p] = UNSTABLECONNECTION
                          /\ grantP'[p] = NoGrant
                          /\ p \notin workedOut' ]_vars
    /\ [](\A p \in PlayerIds :
             logout[p] = UNSTABLECONNECTION =>
                (grantP[p] = NoGrant /\ p \notin workedOut))

\* the player phase has returned after it sent the logout command to a
\* player whose keepalive was exactly CLIENT_TIMEOUT + 1 seconds old
C11_Witness ==
    /\ pc = "checkMonsters"
    /\ \E p \in PlayerIds :
          /\ online[p]
          /\ tempkeepalive - lastkeepalive[p] = CLIENT_TIMEOUT + 1
          /\ logout[p] = UNSTABLECONNECTION

\* the players that were in the registry when the player phase began
Registered == {p \in PlayerIds : lastkeepalive[p] # 0}

Hears(c) == PlanarDistance(c) <= StatedRadius(talkType) /\ SameElevation(c)

\* the latest broadcast had no language, or the language of the player
SameLanguage(c) == talkLang = NoLang \/ charLang[c] = talkLang

\* C16 as stated: after a broadcast whose source is an NPC or a monster,
\* every NPC and every monster within range has received the text.
C16_NonPlayerSourceReachesAll ==
    (talkType # NoTalk /\ charType[0] # "player") =>
        \A c \in Listeners :
            (charType[c] \in {"npc", "monster"} /\ Hears(c)) => c \in received

\* C16 amended: an NPC or a monster has received the text of a broadcast if
\* and only if it is within range and the source is a player; when the
\* source is an NPC or a monster only the players within range (of the
\* language of the broadcast, if it has one) have received it.
C16_OnlyPlayerSourceReachesAll ==
    talkType # NoTalk =>
        /\ \A c \in Listeners :
              charType[c] \in {"npc", "monster"} =>
                 (c \in received <=> (Hears(c) /\ charType[0] = "player"))
        /\ charType[0] # "player" =>
              received = {c \in TalkChars :
                            charType[c] = "player" /\ Hears(c) /\ SameLanguage(c)}

\* an NPC has spoken and a monster within range has not received the text
C16_Witness ==
    /\ talkType # NoTalk
    /\ charType[0] = "npc"
    /\ \E c \in Listeners :
          /\ charType[c] = "monster"
          /\ Hears(c)
          /\ c \notin received

HasRange(item) == item \in DOMAIN WeaponItems

\* the character is within the radius on the plane and on the elevation of
\* character 0
WithinRadius(c, radius) == PlanarDistance(c) <= radius /\ SameElevation(c)

C20_OtherAllegiance ==
    weaponRange # NoRange =>
        temp = {c \in TalkChars :
                  /\ charAlive[c]
                  /\ WithinRadius(c, weaponRange)
                  /\ \/ charType[c] = "player"
                     \/ /\ charType[c] = "monster"
                        /\ monsterType[c] # monsterType[0]
                        /\ charPos[c] # charPos[0]}

\* C20 amended: the result holds exactly the live players within range and
\* the live monsters within range that stand at another position, of
\* whatever species; it holds no dead character and not the querying
\* monster.
C20_LiveOthersInRange ==
    weaponRange # NoRange =>
        /\ temp = {c \in TalkChars :
                     /\ charAlive[c]
                     /\ WithinRadius(c, weaponRange)
                     /\ \/ charType[c] = "player"
                        \/ charType[c] = "monster" /\ charPos[c] # charPos[0]}
        /\ \A c \in temp : charAlive[c]
        /\ 0 \notin temp

\* the result holds a live monster of the species of the querying monster,
\* while the live querying monster itself, which is in range, is left out
C20_Witness ==
    /\ weaponRange # NoRange
    /\ \E c \in temp :
          /\ charType[c] = "monster"
          /\ monsterType[c] = monsterType[0]
    /\ charAlive[0]
    /\ WithinRadius(0, weaponRange)

(***************************************************************************)
(* Properties of the queue of immediate commands.                          *)
(***************************************************************************)
\* C14: the main thread holds the mutex of the queue exactly from the
\* acquisition until the unlock that follows the dequeuing of one entry (or
\* until it returns on the empty queue); it does not hold it while the
\* command of the dequeued player is executed, so in every such state the
\* mutex is free or held by an I/O thread, and with the mutex free an I/O
\* thread that wants to push can take it at once.
C14_LockOnlyWhileDequeuing ==
    /\ [](/\ mutexOwner = MainThread <=> drainPc \in {"while", "unlock"}
          /\ drainPc = "execute" => mutexOwner \in {NoThread} \cup IoThreads
          /\ (drainPc = "execute" /\ mutexOwner = NoThread) =>
                \A t \in IoThreads, p \in Players :
                   (ioPc[t] = "idle" /\ Len(enqLog) < MaxEnqueues)
                      => ENABLED addLock(t, p))
    /\ [][ /\ drainExecute => (mutexOwner # MainThread /\ mutexOwner' = mutexOwner)
           /\ (drainPc = "execute" /\ drainPc' = "while") => FALSE
           /\ (drainPc = "unlock" /\ drainPc' # "unlock") =>
                 (drainPc' = "execute" /\ mutexOwner' = NoThread)
           /\ (drainPc = "execute" /\ drainPc' # "execute") => drainPc' = "lock" ]_vars

\* the command of a dequeued player is about to be executed while an I/O
\* thread holds the mutex for its push
C14_Witness ==
    /\ drainPc = "execute"
    /\ drainPlayer # NoPlayer
    /\ \E t \in IoThreads : mutexOwner = t /\ ioPc[t] = "locked"

\* the entries of log whose flag is set, in their order
RECURSIVE Flagged(_, _)
Flagged(log, flags) ==
    IF flags = <<>> THEN <<>>
    ELSE (IF Head(flags) THEN <<Head(log)>> ELSE <<>>) \o Flagged(Tail(log), Tail(flags))

\* the loop has popped an entry and has not yet read its online flag
Popped == drainPc \in {"unlock", "execute"}

\* C29 as stated: the commands of a popped player are worked out if and
\* only if its connection was online when the entry was popped.
C29_OnlineAtDequeue ==
    ~Popped => execLog = Flagged(deqLog, deqOnline)

\* C29 amended: whatever the interleaving of the pushes with the loop, the
\* entries pushed so far are the entries popped so far followed by the
\* entries in the queue (none lost, none twice, first in first out); the
\* commands of a popped player are worked out if and only if its connection
\* is online when the loop reads the flag, after it has released the mutex;
\* and the loop returns only from a test that found the queue empty while
\* the main thread held the mutex.
C29_ExactlyOnceFifo ==
    /\ [](/\ enqLog = deqLog \o immediatePlayerCommands
          /\ Len(deqOnline) = Len(deqLog)
          /\ Len(testOnline) = Len(deqLog) - (IF Popped THEN 1 ELSE 0)
          /\ execLog = Flagged(deqLog, testOnline)
          /\ drainPc \in {"unlock", "execute", "lock"} =>
                drainPlayer = deqLog[Len(deqLog)])
    /\ [][ /\ (drainPc # "idle" /\ drainPc' = "idle") =>
                 /\ drainPc = "while"
                 /\ immediatePlayerCommands = <<>>
                 /\ mutexOwner = MainThread
           /\ drainExecute => mutexOwner # MainThread ]_vars

\* the loop has returned on the empty queue after it popped the entries of
\* two different players; one of them was online when popped and offline
\* when the loop read the flag, so its commands were not worked out
C29_Witness ==
    /\ drainPc = "idle"
    /\ immediatePlayerCommands = <<>>
    /\ \E i, j \in 1..Len(deqLog) :
          /\ i < j
          /\ deqLog[i] # deqLog[j]
          /\ deqOnline[j] /\ ~testOnline[j]
          /\ testOnline[i]
    /\ Len(execLog) < Len(deqLog)

(***************************************************************************)
(* Properties of the loading of the spawn points.                          *)
(***************************************************************************)
\* C15: a call of initRespawns that finds no rows returns failure and
\* leaves the spawn list empty; a call that meets a fault, at whatever point
\* of the load, returns failure and leaves the spawn list either empty or
\* as it was before the call.
C15_AllOrNothing ==
    loadResult # NotLoaded =>
        /\ (faultAt = NoFault /\ rows = <<>>) =>
              (loadResult = "false" /\ SpawnList = <<>>)
        /\ faultAt # NoFault =>
              (loadResult = "false" /\ SpawnList \in {<<>>, prevSpawnList})

\* the monsters of the registry and of the buffer
AllMonsters == Monsters \cup Range(newMonsters)

FirstRun == unixtime + diff

\* the instant, or the instant shifted by the daylight saving offset, is a
\* whole number of in-game days after the begin of illarion time
OnDayBoundary(instant) ==
    \E shift \in {0, IF isdst THEN DST_SHIFT ELSE 0} :
        Rem(instant + shift - IG_EPOCH, IG_DAY) = 0

\* C19 as stated: the first run of update_ig_day is later than the moment
\* getNextIGDayTime is called, at most one in-game day (28800 s) later, and
\* on a boundary of in-game days counted from the begin of illarion time.
C19_NextDayInFuture ==
    dayPc = "scheduled" =>
        /\ FirstRun > unixtime
        /\ FirstRun <= unixtime + IG_DAY
        /\ OnDayBoundary(FirstRun)

(***************************************************************************)
(* The specification of the tick.                                          *)
(***************************************************************************)
Next ==
    \/ ClockChange
    \/ \E p \in LoginIds : Login(p)
    \/ \E p \in PlayerIds : Disconnect(p)
    \/ \E p \in PlayerIds : KeepAlive(p)
    \/ \E m \in MonsterIds : MonsterDies(m)
    \/ \E n \in NpcIds : NpcDies(n)
    \/ initNPC
    \/ turntheworld
    \/ turnDone
    \/ checkPlayersEntry
    \/ \E p \in PlayerIds : visitPlayer(p)
    \/ erasePlayers
    \/ checkMonstersEntry
    \/ \E m \in MonsterIds : visitMonster(m)
    \/ killMonsters
    \/ commitMonsters
    \/ checkNPCEntry
    \/ \E n \in NpcIds : visitNPC(n)
    \/ checkNPCReturn

Spec == Init /\ [][Next]_vars

(***************************************************************************)
(* The specification of one tick over a world that has run for a while:    *)
(* turntheworld has computed ap > 0 and raised usedAP, the registries hold *)
(* players, monsters and NPCs, and some players stand where the map has no *)
(* field.                                                                  *)
(***************************************************************************)
\* the seconds in which the last keepalive of a player arrived
KeepAliveSeconds == StartSecond .. (StartSecond + CLIENT_TIMEOUT + MaxLate)

\* the second in which the tick runs
PhaseSecond == StartSecond + CLIENT_TIMEOUT + MaxLate - 1

InitPhases ==
    /\ clock = PhaseSecond * 1000 + MIN_AP_UPDATE
    /\ timeStart = StartSecond * 1000
    /\ now = clock
    /\ usedAP = (clock \div MIN_AP_UPDATE) - (timeStart \div MIN_AP_UPDATE)
    /\ ap \in 1..2
    /\ available = ap
    /\ lastTick = clock
    /\ pc = PhaseAfter("turntheworld")
    /\ phaseLog = <<"usedAP">>
    /\ Players \in SUBSET PlayerIds
    /\ online \in {f \in [PlayerIds -> BOOLEAN] : \A p \in PlayerIds \ Players : ~f[p]}
    /\ lastkeepalive \in {f \in [PlayerIds -> {0} \cup KeepAliveSeconds] :
                             \A p \in PlayerIds : f[p] = 0 <=> p \notin Players}
    /\ fieldMissing \in SUBSET Players
    /\ \E k \in 0..MaxMonsters :
          /\ Monsters = 1..k
          /\ nextMonsterId = k + 1
    /\ newMonsters = <<>>
    /\ monAlive = [m \in MonsterIds |-> TRUE]
    /\ Npc \in {{}, NpcIds}
    /\ npcAlive = [n \in NpcIds |-> TRUE]
    /\ tempkeepalive = 0
    /\ todo = {}
    /\ lostPlayers = <<>>
    /\ deadMonsters = <<>>
    /\ grantP = [p \in PlayerIds |-> NoGrant]
    /\ grantM = [m \in MonsterIds |-> NoGrant]
    /\ grantN = [n \in NpcIds |-> NoGrant]
    /\ visitedM = {}
    /\ spin = {}
    /\ logout = [p \in PlayerIds |-> NoCommand]
    /\ workedOut = {}
    /\ caught = {}
    /\ handedAP = usedAP - ap
    /\ WanderOff
    /\ TalkOff
    /\ TargetOff
    /\ DrainOff
    /\ RespawnLoaded /\ DayOff /\ MonsterOff /\ TextOff

PhasesNext ==
    \/ checkPlayersEntry
    \/ \E p \in PlayerIds : visitPlayer(p)
    \/ erasePlayers
    \/ checkMonstersEntry
    \/ \E m \in MonsterIds : visitMonster(m)
    \/ killMonsters
    \/ commitMonsters
    \/ checkNPCEntry
    \/ \E n \in NpcIds : visitNPC(n)
    \/ checkNPCReturn

SpecPhases == InitPhases /\ [][PhasesNext]_vars

(***************************************************************************)
(* The specification of the random steps of one monster.                   *)
(***************************************************************************)
InitWander == TickInit /\ WanderInit /\ TalkOff /\ TargetOff /\ DrainOff /\ RespawnOff /\ DayOff /\ MonsterOff /\ TextOff

SpecWander == InitWander /\ [][WanderNext]_vars

(***************************************************************************)
(* The specification of the text broadcasts of one speaker.                *)
(***************************************************************************)
InitTalk == TickInit /\ WanderOff /\ TalkInit /\ TargetOff /\ DrainOff /\ RespawnOff /\ DayOff /\ MonsterOff /\ TextOff

SpecTalk == InitTalk /\ [][TalkNext]_vars

(***************************************************************************)
(* The specification of the near-target query of one monster.              *)
(***************************************************************************)
InitTarget == TickInit /\ WanderOff /\ TargetInit /\ DrainOff /\ RespawnOff /\ DayOff /\ MonsterOff /\ TextOff

SpecTarget == InitTarget /\ [][TargetNext]_vars

(***************************************************************************)
(* The specification of the queue of immediate commands.                   *)
(***************************************************************************)
DrainNext ==
    \/ \E p \in PlayerIds : Login(p)
    \/ \E p \in PlayerIds : Disconnect(p)
    \/ \E t \in IoThreads, p \in PlayerIds : addLock(t, p)
    \/ \E t \in IoThreads : addPush(t)
    \/ drainLock
    \/ drainTest
    \/ drainUnlock
    \/ drainExecute
    \/ drainRelock

InitDrain == TickInit /\ WanderOff /\ TalkOff /\ TargetOff /\ DrainOff /\ RespawnOff /\ DayOff /\ MonsterOff /\ TextOff

SpecDrain == InitDrain /\ [][DrainNext]_vars

(***************************************************************************)
(* The specification of the loading of the spawn points.                   *)
(***************************************************************************)
InitRespawn ==
    TickInit /\ WanderOff /\ TalkOff /\ TargetOff /\ DrainOff /\ RespawnOff /\ DayOff /\ MonsterOff /\ TextOff

SpecRespawn == InitRespawn /\ [][RespawnNext]_vars

(***************************************************************************)
(* The specification of the text broadcasts, with and without a language,  *)
(* among live and dead characters.                                         *)
(***************************************************************************)
InitTalkAll == TickInit /\ WanderOff /\ TalkAllInit /\ DrainOff /\ RespawnOff /\ DayOff /\ MonsterOff /\ TextOff

SpecTalkAll == InitTalkAll /\ [][TalkAllNext]_vars

(***************************************************************************)
(* The specification of the first run of the day change.                   *)
(***************************************************************************)
InitDayTime ==
    TickInit /\ WanderOff /\ TalkOff /\ TargetOff /\ DrainOff /\ RespawnOff /\ DayInit /\ MonsterOff /\ TextOff

SpecDayTime == InitDayTime /\ [][DayNext]_vars

(***************************************************************************)
(* The specification of one tick in which a player reloads the spawn       *)
(* points: the monsters of the registry were created by the spawn point    *)
(* that was loaded at the start.                                           *)
(***************************************************************************)
InitReload ==
    /\ clock = PhaseSecond * 1000 + MIN_AP_UPDATE
    /\ timeStart = StartSecond * 1000
    /\ now = clock
    /\ usedAP = (clock \div MIN_AP_UPDATE) - (timeStart \div MIN_AP_UPDATE)
    /\ ap \in 1..2
    /\ available = ap
    /\ lastTick = clock
    /\ pc = PhaseAfter("turntheworld")
    /\ phaseLog = <<"usedAP">>
    /\ Players = {1}
    /\ online = [p \in PlayerIds |-> p = 1]
    /\ lastkeepalive = [p \in PlayerIds |-> IF p = 1 THEN PhaseSecond ELSE 0]
    /\ fieldMissing = {}
    /\ \E k \in 0..MaxMonsters :
          /\ Monsters = 1..k
          /\ nextMonsterId = k + 1
          /\ monSpawn = [m \in MonsterIds |-> IF m <= k THEN 1 ELSE 0]
    /\ newMonsters = <<>>
    /\ monAlive \in [MonsterIds -> BOOLEAN]
    /\ Npc = NpcIds
    /\ npcAlive = [n \in NpcIds |-> TRUE]
    /\ tempkeepalive = 0
    /\ todo = {}
    /\ lostPlayers = <<>>
    /\ deadMonsters = <<>>
    /\ grantP = [p \in PlayerIds |-> NoGrant]
    /\ grantM = [m \in MonsterIds |-> NoGrant]
    /\ grantN = [n \in NpcIds |-> NoGrant]
    /\ visitedM = {}
    /\ spin = {}
    /\ logout = [p \in PlayerIds |-> NoCommand]
    /\ workedOut = {}
    /\ caught = {}
    /\ handedAP = usedAP - ap
    /\ SpawnList = <<1>>
    /\ loadResult = "true"
    /\ rows = <<1>>
    /\ faultAt = NoFault
    /\ prevSpawnList = <<>>
    /\ dangling = {}
    /\ WanderOff
    /\ TalkOff
    /\ TargetOff
    /\ DrainOff
    /\ DayOff /\ MonsterOff /\ TextOff

ReloadNext ==
    \/ PhasesNext
    \/ reloadCommand

SpecReload == InitReload /\ [][ReloadNext]_vars

(***************************************************************************)
(* The specification of the turn of one live monster: on a route or not,   *)
(* with or without species data and script, with every outcome of the      *)
(* scans, of the hooks, of the attack and of the waypoint step.            *)
(***************************************************************************)
InitMonster ==
    /\ TickInit /\ WanderOff /\ TalkOff /\ DrainOff /\ RespawnOff /\ DayOff /\ TextOff
    /\ charAlive = [c \in TalkChars |-> TRUE]
    /\ monsterType = [c \in TalkChars |-> 0]
    /\ itemRight = 0
    /\ itemLeft = 0
    /\ canAttack \in BOOLEAN
    /\ weaponRange = NoRange
    /\ temp = {}
    /\ target = NoTarget
    /\ MonsterInit

SpecMonster == InitMonster /\ [][MonsterNext]_vars

(***************************************************************************)
(* The specification of the texts of one broadcast.                        *)
(***************************************************************************)
InitText ==
    /\ TickInit /\ WanderOff /\ TalkOff /\ TargetOff /\ DrainOff /\ RespawnOff /\ DayOff
    /\ MonsterOff /\ TextInit

SpecText == InitText /\ [][TextNext]_vars

====
